---- MODULE Spec2Model ----
(***************************************************************************)
(* KWP2000 (ISO 14230) diagnostic client: src/core/kwp2000.py.             *)
(*                                                                         *)
(* The model follows one Python thread (the tkinter main loop is the only  *)
(* thread of the program) through KWP2000.connect, the service methods,    *)
(* send_request and parse_response, one action per port operation, with    *)
(* the K-line bus and the ECU as the environment.  Bytes are integers in   *)
(* 0..255, byte strings are sequences (1-based: offset k is index k+1).    *)
(***************************************************************************)
EXTENDS Integers, Sequences, FiniteSets, TLC

VARIABLES
    portOpen,      \* self.ser.is_open
    dtr,           \* the DTR line as last set through setDTR
    inbuf,         \* the serial input buffer (bytes received, not yet read)
    op,            \* the top-level call the thread is in, or was in last
    status,        \* "idle", "running", or "done" (outcome in result)
    result,        \* outcome of the last finished top-level call
    cpc,           \* position inside KWP2000.connect ("none" outside it)
    cresp,         \* connect()'s local variable `response`
    pc,            \* position inside send_request / parse_response
    req,           \* arguments of the current send_request
    full_message,  \* send_request's local `full_message`
    response,      \* send_request's local `response`
    parsed,        \* history: arguments handed to parse_response in this call
    log,           \* history: port events of the current top-level call
    frames,        \* history: frames written during the current top-level call
    inflight,      \* history: a frame was written and its read_all is pending
    args,          \* history: arguments of the current top-level method call
    arrived,       \* history: bytes delivered since reset_input_buffer
    stale,         \* history: the input buffer at the moment of the write
    connected,     \* KWP2000GUI.connected
    kwp,           \* KWP2000GUI.kwp is not None
    gpc,           \* position inside the running KWP2000GUI handler
    nested,        \* the handler runs inside KWP2000GUI.ecu_reset
    app,           \* the program that runs: which copy of KWP2000GUI
    quiet,         \* seconds the main loop has waited since the last exchange
    handshake,     \* history: self.kwp's connect() returned a positive result
    leaked,        \* Serial objects still open that self.kwp no longer holds
    fn,            \* pure-function harness: the function under test
    arg,           \* pure-function harness: its argument
    out            \* pure-function harness: its outcome

vars == <<portOpen, dtr, inbuf, op, status, result, cpc, cresp, pc, req,
          full_message, response, parsed, log, frames, inflight,
          args, arrived, stale, connected, kwp, gpc, nested, app, quiet,
          handshake, leaked, fn, arg, out>>

coreVars == <<portOpen, dtr, inbuf, op, status, result, cpc, cresp, pc, req,
              full_message, response, parsed, log, frames, inflight,
              args, arrived, stale, connected, kwp, gpc, nested, app,
              quiet, handshake, leaked>>

pureVars == <<fn, arg, out>>

guiVars == <<connected, kwp, gpc, nested, app, quiet, handshake, leaked>>

----------------------------------------------------------------------------
(* Bounds of the model *)

\* longest payload of a raw send_request call and longest data of an ECU reply
MaxData == 2
\* longest run of late bytes the bus leaves in the input buffer
MaxNoise == 6

----------------------------------------------------------------------------
(* Bytes and bit operations *)

Byte == 0..255

RECURSIVE BitAnd(_, _)
BitAnd(a, b) ==
    IF a = 0 \/ b = 0 THEN 0
    ELSE (IF a % 2 = 1 /\ b % 2 = 1 THEN 1 ELSE 0) + 2 * BitAnd(a \div 2, b \div 2)

RECURSIVE BitOr(_, _)
BitOr(a, b) ==
    IF a = 0 THEN b
    ELSE IF b = 0 THEN a
    ELSE (IF a % 2 = 1 \/ b % 2 = 1 THEN 1 ELSE 0) + 2 * BitOr(a \div 2, b \div 2)

RECURSIVE SeqSum(_)
SeqSum(s) == IF s = <<>> THEN 0 ELSE Head(s) + SeqSum(Tail(s))

\* every sequence over S of length 0..n
SeqsUpTo(S, n) == UNION {[1..k -> S] : k \in 0..n}

\* bytes(iterable) accepts only values in range(256)
BytesOk(s) == \A i \in 1..Len(s) : s[i] \in Byte

\* s[n:]
Drop(s, n) == SubSeq(s, n + 1, Len(s))

----------------------------------------------------------------------------
(* Outcomes of a call: a returned value or a raised exception *)

Return(v) == [kind |-> "return", value |-> v]
Raise(e)  == [kind |-> "raise", error |-> e]
Pending   == [kind |-> "pending"]
NoResult  == [kind |-> "none"]

ChecksumError == "ValueError: bad checksum in response"
TooShortError == "ValueError: response too short"
IndexError    == "IndexError: index out of range"
BytesError    == "ValueError: bytes must be in range(0, 256)"
PortError     == "SerialException: port not open"

----------------------------------------------------------------------------
(* KWP2000: addresses and pure functions *)

ECU_ADDRESS == 16        \* 0x10
TESTER_ADDRESS == 241    \* 0xF1

\* Faulty variant of build_header: the length is not masked to 6 bits
build_header_nomask(length, has_length_byte) ==
    IF has_length_byte
    THEN <<BitOr(128, length), ECU_ADDRESS, TESTER_ADDRESS, length>>
    ELSE <<BitOr(128, length), ECU_ADDRESS, TESTER_ADDRESS>>

\* the format byte lacks the address mode bit 0x80
build_header_plain(length, has_length_byte) ==
    IF has_length_byte
    THEN <<BitAnd(length, 63), ECU_ADDRESS, TESTER_ADDRESS, length>>
    ELSE <<BitAnd(length, 63), ECU_ADDRESS, TESTER_ADDRESS>>

\* Faulty variant of build_header: a length that does not fit 6 bits gets the
\* length byte
build_header_auto(length, has_length_byte) ==
    IF has_length_byte \/ length > 63
    THEN <<BitOr(128, BitAnd(length, 63)), ECU_ADDRESS, TESTER_ADDRESS, length>>
    ELSE <<BitOr(128, BitAnd(length, 63)), ECU_ADDRESS, TESTER_ADDRESS>>

\* build_header(length, has_length_byte)
build_header(length, has_length_byte) ==
    IF has_length_byte
    THEN <<BitOr(128, BitAnd(length, 63)), ECU_ADDRESS, TESTER_ADDRESS, length>>
    ELSE <<BitOr(128, BitAnd(length, 63)), ECU_ADDRESS, TESTER_ADDRESS>>

\* Faulty variant of calculate_checksum: a 7-bit mask
calculate_checksum_mask7(data) == BitAnd(SeqSum(data), 127)

\* calculate_checksum(data): sum(data) & 0xFF
calculate_checksum(data) == BitAnd(SeqSum(data), 255)

\* send_request, lines 62-68: message_data, header, checksum, full_message
BuildMessage(service_id, data, has_length_byte) ==
    LET message_data == <<service_id>> \o data
        length  == Len(message_data)
        header  == build_header(length, has_length_byte)
        message == header \o message_data
    IN  message \o <<calculate_checksum(message)>>

\* send_request raises in bytes(...) when a value does not fit a byte
MessageBuildable(service_id, data, has_length_byte) ==
    /\ service_id \in Byte
    /\ BytesOk(data)
    /\ has_length_byte => (1 + Len(data)) \in Byte

\* send_request, lines 85-90: the checksum test applied to a non-empty response
ChecksumMatches(resp) ==
    resp[Len(resp)] = calculate_checksum(SubSeq(resp, 1, Len(resp) - 1))

\* Faulty variant of the checksum test: the response is returned unchecked
ValidateResponse_unchecked(resp) == Return(resp)

\* an empty response is reported as a checksum failure
ValidateResponse_emptyraise(resp) ==
    IF Len(resp) = 0 \/ ~ChecksumMatches(resp)
    THEN Raise(ChecksumError)
    ELSE Return(resp)

\* only the low 7 bits of the two checksums are compared
ValidateResponse_low7(resp) ==
    IF Len(resp) > 0
       /\ resp[Len(resp)] % 128
             # calculate_checksum(SubSeq(resp, 1, Len(resp) - 1)) % 128
    THEN Raise(ChecksumError)
    ELSE Return(resp)

\* send_request, lines 84-92: what send_request does with the bytes it read
ValidateResponse(resp) ==
    IF Len(resp) > 0 /\ ~ChecksumMatches(resp)
    THEN Raise(ChecksumError)
    ELSE Return(resp)

\* Faulty variants of parse_response, against which the properties are tested.
\* The length test rejects 4-byte responses too
parse_response_min5(resp) ==
    IF Len(resp) < 5 THEN Raise(TooShortError)
    ELSE IF resp[4] = 127
    THEN IF Len(resp) < 6 THEN Raise(IndexError)
         ELSE Return([type |-> "error",
                      service_id |-> resp[5],
                      error_code |-> resp[6]])
    ELSE Return([type |-> "response",
                 service_id |-> resp[4] - 64,
                 data |-> SubSeq(resp, 5, Len(resp) - 1)])

\* service id and error code of a negative response are taken from the
\* wrong offsets
parse_response_swapped(resp) ==
    IF Len(resp) < 4 THEN Raise(TooShortError)
    ELSE IF resp[4] = 127
    THEN IF Len(resp) < 6 THEN Raise(IndexError)
         ELSE Return([type |-> "error",
                      service_id |-> resp[6],
                      error_code |-> resp[5]])
    ELSE Return([type |-> "response",
                 service_id |-> resp[4] - 64,
                 data |-> SubSeq(resp, 5, Len(resp) - 1)])

\* the data of a positive response keeps the checksum byte (response[4:])
parse_response_keepsum(resp) ==
    IF Len(resp) < 4 THEN Raise(TooShortError)
    ELSE IF resp[4] = 127
    THEN IF Len(resp) < 6 THEN Raise(IndexError)
         ELSE Return([type |-> "error",
                      service_id |-> resp[5],
                      error_code |-> resp[6]])
    ELSE Return([type |-> "response",
                 service_id |-> resp[4] - 64,
                 data |-> SubSeq(resp, 5, Len(resp))])

\* a negative response is raised as an exception instead of returned
parse_response_negraise(resp) ==
    IF Len(resp) < 4 THEN Raise(TooShortError)
    ELSE IF resp[4] = 127
    THEN IF Len(resp) < 6 THEN Raise(IndexError)
         ELSE Raise("ValueError: negative response")
    ELSE Return([type |-> "response",
                 service_id |-> resp[4] - 64,
                 data |-> SubSeq(resp, 5, Len(resp) - 1)])

\* parse_response(response)
parse_response(resp) ==
    IF Len(resp) < 4 THEN Raise(TooShortError)
    ELSE IF resp[4] = 127
    THEN IF Len(resp) < 6 THEN Raise(IndexError)
         ELSE Return([type |-> "error",
                      service_id |-> resp[5],
                      error_code |-> resp[6]])
    ELSE Return([type |-> "response",
                 service_id |-> resp[4] - 64,
                 data |-> SubSeq(resp, 5, Len(resp) - 1)])

----------------------------------------------------------------------------
(* KWP2000 service methods: the send_request arguments each one builds *)

Request(service_id, data, has_length_byte) ==
    [service_id |-> service_id, data |-> data, has_length_byte |-> has_length_byte]

start_communication == Request(129, <<>>, FALSE)

start_dignostic_session(session_type, baudrate) ==
    Request(16, <<session_type, baudrate>>, FALSE)

stop_dignostic_session == Request(32, <<>>, FALSE)

stop_communication == Request(130, <<>>, FALSE)

ecu_reset(reset_type) == Request(17, <<reset_type>>, FALSE)

read_ecu_identification(ident_type) == Request(26, <<ident_type>>, FALSE)

\* Faulty variant: the low byte of the group is sent before the high byte
read_dtc_by_status_swapped(dtc_status, group) ==
    Request(24, <<dtc_status>> \o <<BitAnd(group, 255), group \div 256>>, FALSE)

\* group >> 8 is group \div 256 and group & 0xFF is BitAnd(group, 255)
read_dtc_by_status(dtc_status, group) ==
    Request(24, <<dtc_status>> \o <<group \div 256, BitAnd(group, 255)>>, FALSE)

clear_dtc(group) == Request(20, <<group \div 256, BitAnd(group, 255)>>, FALSE)

read_data_by_local_id(local_id) == Request(33, <<local_id>>, FALSE)

tester_present(response_required) == Request(62, <<response_required>>, FALSE)

\* Faulty variant: the request is sent with the 3-byte header
read_memory_by_address_short(memory_type, address, size) ==
    Request(35, <<memory_type>> \o <<address \div 256, BitAnd(address, 255)>>
                \o <<size>>, FALSE)

read_memory_by_address(memory_type, address, size) ==
    Request(35, <<memory_type>> \o <<address \div 256, BitAnd(address, 255)>>
                \o <<size>>, TRUE)

write_data_by_local_id(local_id, data) ==
    Request(59, <<local_id>> \o data, FALSE)

input_output_control(io_id, control_param, control_data) ==
    Request(48, <<io_id, control_param>> \o control_data, FALSE)

----------------------------------------------------------------------------
(* Inputs of the callers and of the environment *)

\* the arguments of a method call: the integer arguments in order, and the
\* byte string argument of the methods that take one (b'' when left out)
Args(p, d) == [p |-> p, d |-> d]
NoArgs == Args(<<>>, <<>>)

\* the i-th integer argument, or the default of the signature when left out
Arg(a, i, default) == IF Len(a.p) >= i THEN a.p[i] ELSE default

\* the request the method `name` builds when called with the arguments a
Invoke(name, a) ==
    CASE name = "start_communication" -> start_communication
      [] name = "start_dignostic_session" ->
             start_dignostic_session(Arg(a, 1, 129), Arg(a, 2, 10))
      [] name = "stop_dignostic_session" -> stop_dignostic_session
      [] name = "stop_communication" -> stop_communication
      [] name = "ecu_reset" -> ecu_reset(Arg(a, 1, 1))
      [] name = "read_ecu_identification" -> read_ecu_identification(Arg(a, 1, 128))
      [] name = "read_dtc_by_status" -> read_dtc_by_status(Arg(a, 1, 0), Arg(a, 2, 0))
      [] name = "clear_dtc" -> clear_dtc(Arg(a, 1, 0))
      [] name = "read_data_by_local_id" -> read_data_by_local_id(a.p[1])
      [] name = "tester_present" -> tester_present(Arg(a, 1, 1))
      [] name = "read_memory_by_address" ->
             read_memory_by_address(a.p[1], a.p[2], a.p[3])
      [] name = "write_data_by_local_id" -> write_data_by_local_id(a.p[1], a.d)
      [] name = "input_output_control" ->
             input_output_control(a.p[1], a.p[2], a.d)

Call(name, a) == [name |-> name, args |-> a, request |-> Invoke(name, a)]

\* the service calls a caller makes: arguments left out and other values
ServiceCalls ==
    {Call(n, NoArgs) :
        n \in {"start_communication", "stop_dignostic_session",
               "stop_communication", "start_dignostic_session", "ecu_reset",
               "read_ecu_identification", "read_dtc_by_status", "clear_dtc",
               "tester_present"}}
    \cup {Call("start_dignostic_session", Args(<<133, 38>>, <<>>))}
    \cup {Call("ecu_reset", Args(<<2>>, <<>>))}
    \cup {Call("read_ecu_identification", Args(<<145>>, <<>>))}
    \cup {Call("read_dtc_by_status", Args(g, <<>>)) :
            g \in {<<0, 65280>>, <<255, 4660>>}}
    \cup {Call("clear_dtc", Args(<<g>>, <<>>)) : g \in {65535, 65536}}
    \cup {Call("read_data_by_local_id", Args(<<i>>, <<>>)) : i \in {1, 255, 256}}
    \cup {Call("tester_present", Args(<<2>>, <<>>))}
    \cup {Call("read_memory_by_address", Args(m, <<>>)) :
            m \in {<<0, 0, 1>>, <<1, 4660, 16>>}}
    \cup {Call("write_data_by_local_id", Args(<<1>>, d)) : d \in {<<>>, <<170>>}}
    \cup {Call("input_output_control", Args(c[1], c[2])) :
            c \in {<<<<9, 6>>, <<1>>>>, <<<<9, 6>>, <<0>>>>,
                   <<<<10, 1>>, <<>>>>, <<<<10, 4>>, <<>>>>}}

\* direct calls of send_request: any service id, any payload, either header
RawCalls ==
    {[name |-> "send_request", args |-> Args(<<s>>, d), request |-> Request(s, d, h)] :
        s \in {0, 62, 255},
        d \in SeqsUpTo({0, 255}, MaxData)
                 \cup {[i \in 1..63 |-> 0], [i \in 1..64 |-> 0]},
        h \in BOOLEAN}

\* the checksum the ECU firmware appends (or a corrupted one)
EcuSeal(m, good) ==
    m \o <<IF good THEN SeqSum(m) % 256 ELSE (SeqSum(m) + 1) % 256>>

\* what the ECU may answer to a request of service s: a positive answer with
\* some data, a negative answer, the negative answer to another service, a
\* negative answer cut short, the positive
\* answer of another service, an answer byte below 0x40; each with a good or a
\* corrupted checksum; or a positive answer without data whose format byte is
\* 0x83; or silence, or a fragment
EcuReplies(s) ==
    LET bodies ==
            {<<(s + 64) % 256>> \o d : d \in SeqsUpTo({1, 128}, MaxData)}
            \cup {<<127, s, n>> : n \in {17, 34}}
            \cup {<<127, (s + 1) % 256, 17>>}
            \cup {<<127>>, <<127, s>>, <<193>>, <<17>>}
        framed(b) == <<128 + Len(b), TESTER_ADDRESS, ECU_ADDRESS>> \o b
    IN  {EcuSeal(framed(b), good) : b \in bodies, good \in BOOLEAN}
        \cup {EcuSeal(<<131, TESTER_ADDRESS, ECU_ADDRESS, (s + 64) % 256>>, TRUE)}
        \cup {<<>>, <<0>>, <<5>>, <<3, 3>>, <<128, 241, 113>>, <<128, 241, 16>>}

\* bytes that reach the input buffer outside the answer window
NoiseChunks == {[i \in 1..n |-> 85] : n \in {1, MaxNoise}}

None == [type |-> "None"]

----------------------------------------------------------------------------
(* The state after KWP2000.__init__: the port is open, nothing was called *)

NoRequest == Request(0, <<>>, FALSE)

Init ==
    /\ portOpen = TRUE
    /\ dtr = TRUE
    /\ inbuf = <<>>
    /\ op = "none"
    /\ status = "idle"
    /\ result = NoResult
    /\ cpc = "none"
    /\ cresp = None
    /\ pc = "idle"
    /\ req = NoRequest
    /\ full_message = <<>>
    /\ response = <<>>
    /\ parsed = <<>>
    /\ log = <<>>
    /\ frames = <<>>
    /\ inflight = FALSE
    /\ args = NoArgs
    /\ arrived = <<>>
    /\ stale = <<>>
    /\ connected = FALSE
    /\ kwp = FALSE
    /\ gpc = "idle"
    /\ nested = FALSE
    /\ app = "gui/gui.py"
    /\ quiet = 0
    /\ handshake = FALSE
    /\ leaked = 0
    /\ fn = "none"
    /\ arg = <<>>
    /\ out = NoResult

----------------------------------------------------------------------------
(* Callers.  The only thread is the tkinter main loop: a handler runs to   *)
(* its end before the next one is dispatched.                              *)

ThreadIdle == status = "idle"

\* a top-level call begins
Begin(name) ==
    /\ ThreadIdle
    /\ op' = name
    /\ status' = "running"
    /\ result' = Pending
    /\ UNCHANGED <<cresp, full_message, response, parsed, log, frames>>

\* a service method, or send_request itself, is called
CallService ==
    \E c \in ServiceCalls \cup RawCalls :
        /\ Begin(c.name)
        /\ req' = c.request
        /\ args' = c.args
        /\ pc' = "build"
        /\ UNCHANGED <<portOpen, dtr, inbuf, cpc, inflight, pureVars, guiVars,
                       arrived, stale>>

\* connect() is called
CallConnect ==
    /\ Begin("connect")
    /\ cpc' = "dtr_low"
    /\ UNCHANGED <<portOpen, dtr, inbuf, pc, req, inflight, pureVars, guiVars, args, arrived, stale>>

\* Faulty variant of close(): closing a port that is already closed raises
close_strict(open) ==
    [portOpen |-> FALSE,
     outcome  |-> IF open THEN Return(None) ELSE Raise(PortError)]

\* close(), lines 188-190: self.ser.close(); pyserial closes an open port and
\* does nothing on a closed one, and close() returns None
close(open) ==
    [portOpen |-> FALSE, outcome |-> Return(None)]

\* close() is called from the main loop, or by the caller that has just got
\* the outcome of connect(): the locals of connect() and of send_request are
\* gone, what they did stays in the history
CallClose ==
    /\ ThreadIdle \/ (status = "done" /\ op = "connect")
    /\ op' = "close"
    /\ status' = "done"
    /\ result' = close(portOpen).outcome
    /\ portOpen' = close(portOpen).portOpen
    /\ inbuf' = <<>>
    /\ log' = Append(log, "close")
    /\ cresp' = None
    /\ req' = NoRequest
    /\ full_message' = <<>>
    /\ response' = <<>>
    /\ UNCHANGED <<dtr, cpc, pc, parsed, frames, inflight, pureVars, guiVars,
                   args, arrived, stale>>

\* the caller has the outcome; the handler ends and its locals are dropped
ReturnToLoop ==
    /\ status = "done"
    /\ status' = "idle"
    /\ op' = "none"
    /\ result' = NoResult
    /\ cresp' = None
    /\ req' = NoRequest
    /\ full_message' = <<>>
    /\ response' = <<>>
    /\ parsed' = <<>>
    /\ log' = <<>>
    /\ frames' = <<>>
    /\ args' = NoArgs
    /\ arrived' = <<>>
    /\ stale' = <<>>
    /\ UNCHANGED <<portOpen, dtr, inbuf, cpc, pc, inflight, pureVars, guiVars>>

----------------------------------------------------------------------------
(* connect() *)

\* Faulty variants of connect().  TesterPresent is sent before
\* StartDiagnosticSession
ConnectAfter_swapped(step, o) ==
    IF o.kind = "raise" THEN "raise"
    ELSE IF step = "start_communication" THEN "tester_present"
    ELSE IF step = "tester_present" THEN "start_dignostic_session"
    ELSE "return"

\* an exception of a step is caught and the next step is taken
ConnectAfter_swallow(step, o) ==
    IF step = "start_communication" THEN "start_dignostic_session"
    ELSE IF step = "start_dignostic_session" THEN "tester_present"
    ELSE IF o.kind = "raise" THEN "raise"
    ELSE "return"

\* connect(), lines 35-40: what follows the service call of position `step`
\* once it ended with outcome o; an exception leaves connect()
ConnectAfter(step, o) ==
    IF o.kind = "raise" THEN "raise"
    ELSE IF step = "start_communication" THEN "start_dignostic_session"
    ELSE IF step = "start_dignostic_session" THEN "tester_present"
    ELSE "return"

\* the request of each step of connect(), with the defaults of the signatures
ConnectRequest(step) ==
    IF step = "start_communication" THEN start_communication
    ELSE IF step = "start_dignostic_session" THEN start_dignostic_session(129, 10)
    ELSE tester_present(1)

\* self.ser.setDTR(False)
ConnectDtrLow ==
    /\ cpc = "dtr_low"
    /\ dtr' = FALSE
    /\ log' = Append(log, "dtr_low")
    /\ cpc' = "dtr_high"
    /\ UNCHANGED <<portOpen, inbuf, op, status, result, cresp, pc, req,
                   full_message, response, parsed, frames, inflight, pureVars, guiVars, args, arrived, stale>>

\* self.ser.setDTR(True), then the call of start_communication()
ConnectDtrHigh ==
    /\ cpc = "dtr_high"
    /\ dtr' = TRUE
    /\ log' = Append(log, "dtr_high")
    /\ cpc' = "start_communication"
    /\ req' = ConnectRequest("start_communication")
    /\ pc' = "build"
    /\ UNCHANGED <<portOpen, inbuf, op, status, result, cresp, full_message,
                   response, parsed, frames, inflight, pureVars, guiVars, args, arrived, stale>>

\* a service method called by connect() ended with outcome o
ConnectContinue(o) ==
    LET next == ConnectAfter(cpc, o)
        resp == IF o.kind = "return" THEN o.value ELSE cresp
    IN  /\ cresp' = resp
        /\ IF next = "raise"
           THEN /\ result' = o
                /\ status' = "done"
                /\ cpc' = "none"
                /\ pc' = "idle"
                /\ req' = req
           ELSE IF next = "return"
           THEN /\ result' = Return(resp)
                /\ status' = "done"
                /\ cpc' = "none"
                /\ pc' = "idle"
                /\ req' = req
           ELSE /\ result' = result
                /\ status' = status
                /\ cpc' = next
                /\ pc' = "build"
                /\ req' = ConnectRequest(next)

\* Faulty variant: a request whose response fails the checksum is sent again
Finish_retry(o) ==
    IF o = Raise(ChecksumError) /\ Len(frames) < 4
    THEN /\ pc' = "reset"
         /\ UNCHANGED <<result, status, cpc, cresp, req>>
    ELSE IF cpc = "none"
    THEN /\ result' = o
         /\ status' = "done"
         /\ pc' = "idle"
         /\ UNCHANGED <<cpc, cresp, req>>
    ELSE ConnectContinue(o)

\* Faulty variant: a result whose service id is not the one requested is
\* turned into an error
Finish_correlate(o) ==
    LET p == IF /\ op # "send_request"
                /\ o.kind = "return"
                /\ o.value.service_id # req.service_id
             THEN Raise(TooShortError)
             ELSE o
    IN  IF cpc = "none"
        THEN /\ result' = p
             /\ status' = "done"
             /\ pc' = "idle"
             /\ UNCHANGED <<cpc, cresp, req>>
        ELSE ConnectContinue(p)

\* a service method (or a direct send_request) ends with outcome o
Finish(o) ==
    IF cpc = "none"
    THEN /\ result' = o
         /\ status' = "done"
         /\ pc' = "idle"
         /\ UNCHANGED <<cpc, cresp, req>>
    ELSE ConnectContinue(o)

----------------------------------------------------------------------------
(* send_request() and parse_response(), one action per statement group *)

\* Faulty variant of send_request: it returns after the write, without
\* reading the answer
SendNext_noread(p) ==
    IF p = "build" THEN "reset"
    ELSE IF p = "reset" THEN "write"
    ELSE "check"

\* Faulty variant of send_request: the echo is not read off before read_all
SendNext_noecho(p) ==
    IF p = "build" THEN "reset"
    ELSE IF p = "reset" THEN "write"
    ELSE IF p = "write" THEN "sleep"
    ELSE IF p = "sleep" THEN "read_all"
    ELSE "check"

\* send_request, lines 72-80: the position that follows position p
SendNext(p) ==
    IF p = "build" THEN "reset"
    ELSE IF p = "reset" THEN "write"
    ELSE IF p = "write" THEN "sleep"
    ELSE IF p = "sleep" THEN "read_echo"
    ELSE IF p = "read_echo" THEN "read_all"
    ELSE "check"

\* lines 62-68: build the frame; bytes() raises on a value outside 0..255
SendBuild ==
    /\ pc = "build"
    /\ IF MessageBuildable(req.service_id, req.data, req.has_length_byte)
       THEN /\ full_message' =
                   BuildMessage(req.service_id, req.data, req.has_length_byte)
            /\ pc' = SendNext("build")
            /\ UNCHANGED <<result, status, cpc, cresp, req>>
       ELSE /\ full_message' = full_message
            /\ Finish(Raise(BytesError))
    /\ UNCHANGED <<portOpen, dtr, inbuf, op, response, parsed, log, frames,
                   inflight, pureVars, guiVars, args, arrived, stale>>

\* line 73: self.ser.reset_input_buffer(); a closed port raises
SendReset ==
    /\ pc = "reset"
    /\ IF portOpen
       THEN /\ inbuf' = <<>>
            /\ arrived' = <<>>
            /\ stale' = <<>>
            /\ log' = Append(log, "reset")
            /\ pc' = SendNext("reset")
            /\ UNCHANGED <<result, status, cpc, cresp, req>>
       ELSE /\ inbuf' = inbuf
            /\ log' = log
            /\ Finish(Raise(PortError))
            /\ UNCHANGED <<arrived, stale>>
    /\ UNCHANGED <<portOpen, dtr, op, full_message, response, parsed, frames,
                   inflight, pureVars, guiVars, args>>

\* line 74: self.ser.write(full_message)
SendWrite ==
    /\ pc = "write"
    /\ frames' = Append(frames, full_message)
    /\ log' = Append(log, "write")
    /\ inflight' = TRUE
    /\ stale' = inbuf
    /\ pc' = SendNext("write")
    /\ UNCHANGED <<portOpen, dtr, inbuf, op, status, result, cpc, cresp, req,
                   full_message, response, parsed, pureVars, guiVars, args,
                   arrived>>

\* line 77: time.sleep(0.5); meanwhile the K-line echoes the frame into the
\* input buffer and the ECU answers (or not)
SendSettle ==
    /\ pc = "sleep"
    /\ \E r \in EcuReplies(req.service_id) :
           /\ inbuf' = inbuf \o full_message \o r
           /\ arrived' = arrived \o full_message \o r
    /\ pc' = SendNext("sleep")
    /\ UNCHANGED <<portOpen, dtr, op, status, result, cpc, cresp, req,
                   full_message, response, parsed, log, frames, inflight,
                   pureVars, guiVars, args, stale>>

\* line 79: self.ser.read(len(full_message)), the result is discarded
SendReadEcho ==
    /\ pc = "read_echo"
    /\ inbuf' = Drop(inbuf, Len(full_message))
    /\ log' = Append(log, "read_echo")
    /\ pc' = SendNext("read_echo")
    /\ UNCHANGED <<portOpen, dtr, op, status, result, cpc, cresp, req,
                   full_message, response, parsed, frames, inflight, pureVars, guiVars, args, arrived, stale>>

\* line 80: response = self.ser.read_all()
SendReadAll ==
    /\ pc = "read_all"
    /\ response' = inbuf
    /\ inbuf' = <<>>
    /\ log' = Append(log, "read_all")
    /\ inflight' = FALSE
    /\ pc' = SendNext("read_all")
    /\ UNCHANGED <<portOpen, dtr, op, status, result, cpc, cresp, req,
                   full_message, parsed, frames, pureVars, guiVars, args, arrived, stale>>

\* lines 84-92: the checksum test; send_request returns the response or
\* raises.  A direct caller of send_request gets the bytes, a service method
\* goes on to parse_response
SendCheck ==
    /\ pc = "check"
    /\ LET o == ValidateResponse(response)
       IN  IF o.kind = "raise" \/ op = "send_request"
           THEN Finish(o)
           ELSE /\ pc' = "parse"
                /\ UNCHANGED <<result, status, cpc, cresp, req>>
    /\ UNCHANGED <<portOpen, dtr, inbuf, op, full_message, response, parsed,
                   log, frames, inflight, pureVars, guiVars, args, arrived, stale>>

\* return self.parse_response(response)
ServiceParse ==
    /\ pc = "parse"
    /\ parsed' = Append(parsed, response)
    /\ Finish(parse_response(response))
    /\ UNCHANGED <<portOpen, dtr, inbuf, op, full_message, response, log,
                   frames, inflight, pureVars, guiVars, args, arrived, stale>>

----------------------------------------------------------------------------
(* Environment: bytes that arrive outside the answer window, while the     *)
(* thread is between calls or between reset_input_buffer and write          *)

LateBytes ==
    /\ portOpen
    /\ inbuf = <<>>
    /\ status = "idle" \/ pc = "write"
    /\ \E n \in NoiseChunks :
           /\ inbuf' = n
           /\ arrived' = IF pc = "write" THEN arrived \o n ELSE arrived
    /\ UNCHANGED <<portOpen, dtr, op, status, result, cpc, cresp, pc, req,
                   full_message, response, parsed, log, frames, inflight,
                   pureVars, guiVars, args, stale>>

----------------------------------------------------------------------------

Next ==
    \/ CallService
    \/ CallConnect
    \/ CallClose
    \/ ReturnToLoop
    \/ ConnectDtrLow
    \/ ConnectDtrHigh
    \/ SendBuild
    \/ SendReset
    \/ SendWrite
    \/ SendSettle
    \/ SendReadEcho
    \/ SendReadAll
    \/ SendCheck
    \/ ServiceParse
    \/ LateBytes

Spec == Init /\ [][Next]_vars


----------------------------------------------------------------------------
(* parse_response as a pure function: Init draws the input, ParseApply     *)
(* applies the function                                                     *)

\* inputs of parse_response: every short sequence over a few bytes, every
\* 4-byte input, every negative answer [h0,h1,h2,0x7F,svc,nrc,checksum],
\* negative answers cut short, and positive answers for every byte at
\* offset 3 with some data and a checksum
ParseInputs ==
    SeqsUpTo({0, 127, 193}, 3)
    \cup {<<128, 241, 16, b>> : b \in Byte}
    \cup {EcuSeal(<<131, 241, 16, 127, svc, nrc>>, TRUE) : svc \in Byte, nrc \in Byte}
    \cup {<<129, 241, 16, 127, 0>>, <<130, 241, 16, 127, 33>>,
          <<131, 241, 16, 127, 33, 18>>, <<131, 241, 16, 127, 33, 18, 0>>}
    \cup {EcuSeal(<<128 + 1 + Len(d), 241, 16, b>> \o d, good) :
            b \in Byte \ {127}, d \in SeqsUpTo({1, 128}, MaxData),
            good \in BOOLEAN}

InitParse ==
    /\ portOpen = TRUE
    /\ dtr = TRUE
    /\ inbuf = <<>>
    /\ op = "none"
    /\ status = "idle"
    /\ result = NoResult
    /\ cpc = "none"
    /\ cresp = None
    /\ pc = "idle"
    /\ req = NoRequest
    /\ full_message = <<>>
    /\ response = <<>>
    /\ parsed = <<>>
    /\ log = <<>>
    /\ frames = <<>>
    /\ inflight = FALSE
    /\ args = NoArgs
    /\ arrived = <<>>
    /\ stale = <<>>
    /\ connected = FALSE
    /\ kwp = FALSE
    /\ gpc = "idle"
    /\ nested = FALSE
    /\ app = "gui/gui.py"
    /\ quiet = 0
    /\ handshake = FALSE
    /\ leaked = 0
    /\ fn = "parse_response"
    /\ arg \in ParseInputs
    /\ out = Pending

ParseApply ==
    /\ fn = "parse_response"
    /\ out = Pending
    /\ out' = parse_response(arg)
    /\ UNCHANGED <<coreVars, fn, arg>>

NextParse == ParseApply

SpecParse == InitParse /\ [][NextParse]_vars


----------------------------------------------------------------------------
(* Properties.  The checksum and the layouts are restated here from the    *)
(* protocol, not through the operators of the model.                       *)

\* sum of the bytes modulo 256
Sum256(s) == SeqSum(s) % 256

\* the last byte of s is the sum modulo 256 of the bytes before it
WellSummed(s) == Len(s) > 0 /\ s[Len(s)] = Sum256(SubSeq(s, 1, Len(s) - 1))

IsPrefix(s, t) == Len(s) <= Len(t) /\ s = SubSeq(t, 1, Len(s))

\* the bytes of r from offset 4 up to, not including, the last byte
BetweenIdAndChecksum(r) == [i \in 1..(Len(r) - 5) |-> r[i + 4]]

Applied == fn = "parse_response" /\ out # Pending

\* a negative response carries its service id and its error code
PlausibleLayout(r) == Len(r) >= 4 /\ (r[4] = 127 => Len(r) >= 6)

\* C5: parse_response fails with 'too short' for every input of length 0..3
\* and returns a positive or negative variant for every input of length >= 4
\* with a plausible layout; a 4-byte input whose byte 3 is not 0x7F gives a
\* positive result with empty data.
C5_ShortRejected ==
    Applied =>
        /\ Len(arg) < 4 => out = Raise(TooShortError)
        /\ PlausibleLayout(arg) =>
               out.kind = "return" /\ out.value.type \in {"response", "error"}
        /\ (Len(arg) = 4 /\ arg[4] # 127) =>
               /\ out.kind = "return"
               /\ out.value.type = "response"
               /\ out.value.data = <<>>

C5_Witness ==
    /\ Applied
    /\ Len(arg) = 4
    /\ arg[4] = 193
    /\ out.kind = "return"
    /\ out.value.data = <<>>

\* C6: for every response [h0,h1,h2,0x7F,svc,nrc,checksum] with a correct
\* checksum, parse_response returns the negative variant (type 'error') with
\* service_id = svc and error_code = nrc, for all bytes svc and nrc.
C6_NegativeDetected ==
    (Applied /\ Len(arg) = 7 /\ arg[4] = 127 /\ WellSummed(arg)) =>
        out = Return([type |-> "error", service_id |-> arg[5], error_code |-> arg[6]])

C6_Witness ==
    /\ Applied
    /\ arg = <<131, 241, 16, 127, 33, 18, 54>>
    /\ out = Return([type |-> "error", service_id |-> 33, error_code |-> 18])

\* C7: for every response of length >= 4 whose byte at offset 3 is not 0x7F,
\* parse_response returns a positive variant whose service_id is that byte
\* minus 0x40 and whose data is the bytes from offset 4 up to, not
\* including, the last byte.
C7_PositiveDerived ==
    (Applied /\ Len(arg) >= 4 /\ arg[4] # 127) =>
        /\ out.kind = "return"
        /\ out.value.type = "response"
        /\ out.value.service_id = arg[4] - 64
        /\ out.value.data = BetweenIdAndChecksum(arg)

C7_Witness ==
    /\ Applied
    /\ Len(arg) = 7
    /\ arg[4] = 62 + 64
    /\ out.kind = "return"
    /\ out.value.service_id = 62
    /\ out.value.data = <<1, 128>>


\* a non-empty byte string whose last byte is not the sum of the others
BadSum(r) == r # <<>> /\ ~WellSummed(r)

\* the service id and payload of a frame with a 3-byte header
FrameBody(f) == SubSeq(f, 4, Len(f) - 1)

ConnectEvents ==
    <<"dtr_low", "dtr_high",
      "reset", "write", "read_echo", "read_all",
      "reset", "write", "read_echo", "read_all",
      "reset", "write", "read_echo", "read_all">>

\* StartCommunication, StartDiagnosticSession [0x81, 0x0A], TesterPresent [0x01]
ConnectBodies == << <<129>>, <<16, 129, 10>>, <<62, 1>> >>

\* C1: connect() deasserts DTR, asserts it, and only then writes the three
\* request frames StartCommunication (0x81), StartDiagnosticSession (0x10,
\* [0x81, 0x0A]), TesterPresent (0x3E, [0x01]) in this order, each after the
\* response of the step before was read; the value it returns is the parsed
\* result of the TesterPresent step.
C1_ConnectOrder ==
    op = "connect" =>
        /\ IsPrefix(log, ConnectEvents)
        /\ IsPrefix([i \in 1..Len(frames) |-> FrameBody(frames[i])], ConnectBodies)
        /\ frames # <<>> => dtr = TRUE
        /\ (status = "done" /\ result.kind = "return") =>
               /\ log = ConnectEvents
               /\ Len(frames) = 3
               /\ Len(parsed) = 3
               /\ parsed[3] = response
               /\ result = parse_response(parsed[3])

C1_Witness ==
    /\ op = "connect"
    /\ status = "done"
    /\ result.kind = "return"
    /\ result.value.type = "response"
    /\ result.value.service_id = 62

\* C2: every frame send_request writes, for any service id, payload and
\* header form, ends with the sum modulo 256 of all its preceding bytes.
C2_FrameChecksum ==
    \A i \in 1..Len(frames) : WellSummed(frames[i])

C2_Witness ==
    /\ op = "send_request"
    /\ req = Request(255, <<255, 255>>, TRUE)
    /\ frames = << <<131, 16, 241, 3, 255, 255, 255, 132>> >>

\* the layout [format, 0x10, 0xF1, (length), service id, payload..., checksum]
HasLayout(f, service_id, data, has_length_byte) ==
    LET length == 1 + Len(data)
        fmt    == 128 + (length % 64)
        head   == IF has_length_byte THEN <<fmt, 16, 241, length>>
                  ELSE <<fmt, 16, 241>>
    IN  /\ Len(f) = Len(head) + length + 1
        /\ SubSeq(f, 1, Len(f) - 1) = head \o <<service_id>> \o data

\* C3: the frame written by send_request(service_id, payload,
\* has_length_byte) is [format_byte, 0x10, 0xF1, (length byte only when
\* has_length_byte), service_id, payload..., checksum] with length =
\* 1 + len(payload) and format_byte = 0x80 | (length & 0x3F).
C3_FrameLayout ==
    (pc \in {"sleep", "read_echo", "read_all", "check", "parse"} /\ frames # <<>>) =>
        HasLayout(frames[Len(frames)], req.service_id, req.data, req.has_length_byte)

C3_Witness ==
    /\ op = "read_memory_by_address"
    /\ pc = "check"
    /\ Len(frames) = 1
    /\ SubSeq(frames[1], 1, 9) = <<133, 16, 241, 5, 35, 1, 18, 52, 16>>

\* C4: a non-empty response whose last byte differs from the sum modulo 256
\* of its other bytes makes send_request fail with the checksum error; it is
\* never handed to parse_response and the call returns no result; every
\* non-empty byte string send_request returns passes the checksum test.
C4_ChecksumRejected ==
    /\ \A i \in 1..Len(parsed) : parsed[i] = <<>> \/ WellSummed(parsed[i])
    /\ pc = "parse" => ~BadSum(response)
    /\ (status = "done" /\ BadSum(response)) => result = Raise(ChecksumError)
    /\ (status = "done" /\ op = "send_request" /\ result.kind = "return") =>
           (result.value = <<>> \/ WellSummed(result.value))

C4_Witness ==
    /\ op = "tester_present"
    /\ status = "done"
    /\ BadSum(response)
    /\ Len(response) = 6
    /\ result = Raise(ChecksumError)
    /\ parsed = <<>>

ServiceNames == {c.name : c \in ServiceCalls}

\* C9: for every service operation, a well-formed negative response with a
\* valid checksum is returned as a normal result of type 'error' carrying
\* the service id and the NRC, never raised.
C9_NegativeReturned ==
    (/\ status = "done"
     /\ op \in ServiceNames
     /\ Len(response) = 7
     /\ response[4] = 127
     /\ WellSummed(response)) =>
        result = Return([type |-> "error",
                         service_id |-> response[5],
                         error_code |-> response[6]])

C9_Witness ==
    /\ status = "done"
    /\ op = "read_memory_by_address"
    /\ result = Return([type |-> "error", service_id |-> 35, error_code |-> 34])

\* C10: when the response of a step of connect() fails the checksum test,
\* connect() fails with that error and no frame of a later step is written.
C10_ConnectChecksumAbort ==
    (op = "connect" /\ BadSum(response)) =>
        \/ pc = "check"
        \/ /\ status = "done"
           /\ result = Raise(ChecksumError)
           /\ Len(frames) = Len(parsed) + 1

C10_Witness ==
    /\ op = "connect"
    /\ status = "done"
    /\ result = Raise(ChecksumError)
    /\ Len(frames) = 2

----------------------------------------------------------------------------
(* connect() and rejected steps *)

\* a response that parse_response turns into a result of type 'error'
Rejected(r) == Len(r) >= 6 /\ r[4] = 127

\* C11: connect() does not report a positive result when the ECU answered
\* one of its steps, StartCommunication and StartDiagnosticSession included,
\* with a NegativeResponse: the rejection reaches the caller, as an exception
\* or as a result of type 'error'.
C11_RejectionPropagates ==
    (/\ op = "connect"
     /\ status = "done"
     /\ \E i \in 1..Len(parsed) : Rejected(parsed[i]))
        => ~(result.kind = "return" /\ result.value.type = "response")

----------------------------------------------------------------------------
(* parse_response and negative responses cut short *)

\* the Python class of each exception the client raises
ExceptionClass(e) ==
    IF e \in {ChecksumError, TooShortError, BytesError} THEN "ValueError"
    ELSE IF e = IndexError THEN "IndexError"
    ELSE "SerialException"

\* C20: for a response of length 4 or 5 whose byte at offset 3 is 0x7F,
\* parse_response returns no result and fails with the malformed-response
\* error of the protocol layer, the error kind of 'response too short'.
C20_CutShortIsMalformed ==
    (Applied /\ Len(arg) \in {4, 5} /\ arg[4] = 127)
        => /\ out.kind = "raise"
           /\ ExceptionClass(out.error) = ExceptionClass(TooShortError)

----------------------------------------------------------------------------
(* send_request: order of the port operations *)

SendEvents == <<"reset", "write", "read_echo", "read_all">>

\* the response was read by read_all
ResponseRead == pc \in {"check", "parse"} \/ (status = "done" /\ Len(log) = 4)

\* s is a tail of t
IsSuffix(s, t) == \E k \in 0..Len(t) : s = Drop(t, k)

----------------------------------------------------------------------------
(* No retries *)

\* C14: no automatic retry: a service operation never writes a second frame,
\* and a call whose response was read, whatever the response was (positive,
\* negative, empty, too short, bad checksum), has written exactly one frame;
\* connect() writes at most three frames.
C14_NoRetry ==
    /\ op \in ServiceNames =>
          /\ Len(frames) <= 1
          /\ (status = "done" /\ Len(log) = 4) => frames = <<full_message>>
    /\ op = "connect" => Len(frames) <= 3

C14_Witness ==
    /\ op \in ServiceNames
    /\ status = "done"
    /\ result = Raise(ChecksumError)
    /\ Len(frames) = 1

----------------------------------------------------------------------------
(* The table of services, restated from the protocol description *)

\* the defaults of the parameters that may be left out
TableDefaults(name) ==
    CASE name = "start_dignostic_session" -> <<129, 10>>
      [] name = "ecu_reset" -> <<1>>
      [] name = "read_ecu_identification" -> <<128>>
      [] name = "read_dtc_by_status" -> <<0, 0>>
      [] name = "clear_dtc" -> <<0>>
      [] name = "tester_present" -> <<1>>
      [] OTHER -> <<>>

\* the parameters of the current call, defaults filled in
Given == args.p \o Drop(TableDefaults(op), Len(args.p))

\* hi, lo are the high and the low byte of the 16-bit value g
Split16(g, hi, lo) == hi \in Byte /\ lo \in Byte /\ hi * 256 + lo = g

\* the row of the table for the service `name` called with parameters p and
\* byte string d: the service id sid and the payload data
TableRow(name, p, d, sid, data) ==
    CASE name = "start_communication" -> sid = 129 /\ data = <<>>
      [] name = "start_dignostic_session" -> sid = 16 /\ data = <<p[1], p[2]>>
      [] name = "stop_dignostic_session" -> sid = 32 /\ data = <<>>
      [] name = "stop_communication" -> sid = 130 /\ data = <<>>
      [] name = "ecu_reset" -> sid = 17 /\ data = <<p[1]>>
      [] name = "read_ecu_identification" -> sid = 26 /\ data = <<p[1]>>
      [] name = "read_dtc_by_status" ->
             /\ sid = 24
             /\ Len(data) = 3
             /\ data[1] = p[1]
             /\ p[2] \in 0..65535 => Split16(p[2], data[2], data[3])
      [] name = "clear_dtc" ->
             /\ sid = 20
             /\ Len(data) = 2
             /\ p[1] \in 0..65535 => Split16(p[1], data[1], data[2])
      [] name = "read_data_by_local_id" -> sid = 33 /\ data = <<p[1]>>
      [] name = "tester_present" -> sid = 62 /\ data = <<p[1]>>
      [] name = "write_data_by_local_id" -> sid = 59 /\ data = <<p[1]>> \o d
      [] name = "input_output_control" -> sid = 48 /\ data = <<p[1], p[2]>> \o d
      [] OTHER -> FALSE

TableNames == ServiceNames \ {"read_memory_by_address"}

----------------------------------------------------------------------------
(* The 4-byte header of ReadMemoryByAddress *)

\* C16: the frame of ReadMemoryByAddress is [0x85, 0x10, 0xF1, 0x05, 0x23,
\* mem_type, addr_hi, addr_lo, size, checksum], the length 5 being both in
\* the low 6 bits of the format byte and in the fourth header byte; every
\* other service operation writes a 3-byte header, the service id following
\* it directly.
C16_MemoryHeader ==
    /\ op = "read_memory_by_address" =>
          \A i \in 1..Len(frames) :
              LET f == frames[i]
              IN  /\ Len(f) = 10
                  /\ SubSeq(f, 1, 5) = <<133, 16, 241, 5, 35>>
                  /\ f[1] % 64 = 5
                  /\ f[4] = 5
                  /\ f[6] = args.p[1]
                  /\ Split16(args.p[2], f[7], f[8])
                  /\ f[9] = args.p[3]
                  /\ f[10] = Sum256(SubSeq(f, 1, 9))
    /\ op \in TableNames =>
          \A i \in 1..Len(frames) :
              LET f == frames[i]
              IN  /\ Len(f) = 3 + 1 + Len(req.data) + 1
                  /\ SubSeq(f, 2, 3) = <<16, 241>>
                  /\ f[4] = req.service_id

C16_Witness ==
    /\ op = "read_memory_by_address"
    /\ args.p = <<1, 4660, 16>>
    /\ frames = << <<133, 16, 241, 5, 35, 1, 18, 52, 16, 5>> >>

----------------------------------------------------------------------------
(* No answer from the ECU *)

\* the call read its response and found no byte after the echo
NoAnswer == status = "done" /\ Len(log) = 4 /\ response = <<>>

\* C19: when no response bytes are received after the echo, send_request
\* skips the checksum validation and returns the empty response; a service
\* call hands it to parse_response and fails with the 'too short' error
\* instead of returning a result.
C19_EmptyResponse ==
    /\ (op = "send_request" /\ NoAnswer) => result = Return(<<>>)
    /\ (op \in ServiceNames /\ NoAnswer) =>
          /\ parsed = << <<>> >>
          /\ result = Raise(TooShortError)

C19_Witness ==
    /\ op = "read_ecu_identification"
    /\ NoAnswer
    /\ result = Raise(TooShortError)

----------------------------------------------------------------------------
(* build_header as a pure function *)

\* the client object at rest, no call under way
CoreAtRest ==
    /\ portOpen = TRUE
    /\ dtr = TRUE
    /\ inbuf = <<>>
    /\ op = "none"
    /\ status = "idle"
    /\ result = NoResult
    /\ cpc = "none"
    /\ cresp = None
    /\ pc = "idle"
    /\ req = NoRequest
    /\ full_message = <<>>
    /\ response = <<>>
    /\ parsed = <<>>
    /\ log = <<>>
    /\ frames = <<>>
    /\ inflight = FALSE
    /\ args = NoArgs
    /\ arrived = <<>>
    /\ stale = <<>>
    /\ connected = FALSE
    /\ kwp = FALSE
    /\ gpc = "idle"
    /\ nested = FALSE
    /\ app = "gui/gui.py"
    /\ quiet = 0
    /\ handshake = FALSE
    /\ leaked = 0

\* inputs of build_header: every length a byte can hold, both header forms
\* (has_length_byte is the second component, 1 for True)
HeaderInputs == {<<length, h>> : length \in Byte, h \in {0, 1}}

InitHeader ==
    /\ CoreAtRest
    /\ fn = "build_header"
    /\ arg \in HeaderInputs
    /\ out = Pending

HeaderApply ==
    /\ fn = "build_header"
    /\ out = Pending
    /\ out' = Return(build_header(arg[1], arg[2] = 1))
    /\ UNCHANGED <<coreVars, fn, arg>>

NextHeader == HeaderApply

SpecHeader == InitHeader /\ [][NextHeader]_vars

\* C17: for all length in 0..63, build_header(length, False) is 3 bytes with
\* header[0] & 0xC0 = 0x80 and header[0] & 0x3F = length & 0x3F, and
\* build_header(length, True) is 4 bytes with header[3] = length; in both
\* forms header[1] is 0x10 and header[2] is 0xF1.
C17_HeaderShape ==
    (fn = "build_header" /\ out # Pending /\ arg[1] \in 0..63) =>
        LET header == out.value
        IN  /\ out.kind = "return"
            /\ arg[2] = 0 =>
                  /\ Len(header) = 3
                  /\ header[1] \in Byte
                  /\ header[1] \div 64 = 2
                  /\ header[1] % 64 = arg[1] % 64
            /\ arg[2] = 1 =>
                  /\ Len(header) = 4
                  /\ header[4] = arg[1]
            /\ header[2] = 16
            /\ header[3] = 241

C17_Witness ==
    /\ fn = "build_header"
    /\ arg = <<63, 1>>
    /\ out = Return(<<191, 16, 241, 63>>)

----------------------------------------------------------------------------
(* calculate_checksum and the checksum test of send_request, as a round trip *)

\* longest byte sequence that is sealed
MaxSeal == 3

\* s with its i-th byte replaced by v
Replace(s, i, v) == [s EXCEPT ![i] = v]

\* a sequence B of length 1..n, a position i in it and a byte v other than B[i]
ChecksumInputs(n) ==
    {[B |-> b, i |-> i, v |-> v] :
        b \in SeqsUpTo({0, 1, 128, 255}, n) \ {<<>>},
        i \in 1..n, v \in Byte}

InitChecksum ==
    /\ CoreAtRest
    /\ fn = "calculate_checksum"
    /\ arg \in {a \in ChecksumInputs(MaxSeal) : a.i <= Len(a.B) /\ a.v # a.B[a.i]}
    /\ out = Pending

\* B is sealed with calculate_checksum(B); the sealed frame, and the frame
\* with one byte of B replaced under the same checksum, go through the
\* checksum test of send_request
ChecksumApply ==
    /\ fn = "calculate_checksum"
    /\ out = Pending
    /\ LET checksum == calculate_checksum(arg.B)
       IN  out' = [sealed  |-> ValidateResponse(arg.B \o <<checksum>>),
                   mutated |-> ValidateResponse(
                                   Replace(arg.B, arg.i, arg.v) \o <<checksum>>)]
    /\ UNCHANGED <<coreVars, fn, arg>>

NextChecksum == ChecksumApply

SpecChecksum == InitChecksum /\ [][NextChecksum]_vars

\* C18: for every byte sequence B of length >= 1, B ++ [calculate_checksum(B)]
\* passes the response checksum validation of send_request, and replacing any
\* single byte of B by a different value without recomputing the checksum
\* makes the validation fail.
C18_ChecksumRoundTrip ==
    (fn = "calculate_checksum" /\ out # Pending) =>
        /\ out.sealed.kind = "return"
        /\ out.sealed.value = arg.B \o <<Sum256(arg.B)>>
        /\ out.mutated = Raise(ChecksumError)

C18_Witness ==
    /\ fn = "calculate_checksum"
    /\ arg = [B |-> <<255, 128>>, i |-> 2, v |-> 0]
    /\ out # Pending
    /\ out.mutated = Raise(ChecksumError)

----------------------------------------------------------------------------
(* KWP2000GUI: the handlers of the buttons, run by the tkinter main loop.  *)
(* A handler calls methods of self.kwp; those run through the actions of   *)
(* send_request above.  log, frames and parsed hold the history of the     *)
(* current connect, disconnect or service call of the handler.             *)

\* the two programs of the repository with a KWP2000GUI of their own:
\* gui/gui.py (core/kwp2000.py repeats its handlers) and kwp2000_client.py
Apps == {"gui/gui.py", "kwp2000_client.py"}

callVars == <<op, status, result, req, args, pc>>
histVars == <<cresp, full_message, response, parsed, log, frames, arrived, stale>>
portVars == <<portOpen, dtr, inbuf, inflight>>
clientVars == <<portVars, callVars, histVars, cpc>>

\* self.kwp.<name>(...) is called with the arguments a
KwpCall(name, a) ==
    /\ op' = name
    /\ status' = "running"
    /\ result' = Pending
    /\ req' = Invoke(name, a)
    /\ args' = a
    /\ pc' = "build"

\* the history of an operation of the handler starts empty
FreshHistory ==
    /\ cresp' = None
    /\ full_message' = <<>>
    /\ response' = <<>>
    /\ parsed' = <<>>
    /\ log' = <<>>
    /\ frames' = <<>>
    /\ arrived' = <<>>
    /\ stale' = <<>>

\* the buttons: connect_btn is enabled while not connected, disconnect_btn
\* while connected (they are configured where connected is assigned)
ConnectEnabled == ~connected
DisconnectEnabled == connected

\* the calls the service handlers make: read_ident, read_dtc, clear_dtc,
\* read_data (combobox ids), control_device (device and action comboboxes)
GuiServiceCalls ==
    {Call("read_ecu_identification", Args(<<128>>, <<>>)),
     Call("read_dtc_by_status", NoArgs),
     Call("clear_dtc", Args(<<0>>, <<>>)),
     Call("read_data_by_local_id", Args(<<1>>, <<>>)),
     Call("read_data_by_local_id", Args(<<163>>, <<>>)),
     Call("input_output_control", Args(<<9, 6>>, <<1>>)),
     Call("input_output_control", Args(<<66, 4>>, <<>>))}

InitGui ==
    /\ portOpen = FALSE
    /\ dtr = FALSE
    /\ inbuf = <<>>
    /\ op = "none"
    /\ status = "idle"
    /\ result = NoResult
    /\ cpc = "none"
    /\ cresp = None
    /\ pc = "idle"
    /\ req = NoRequest
    /\ full_message = <<>>
    /\ response = <<>>
    /\ parsed = <<>>
    /\ log = <<>>
    /\ frames = <<>>
    /\ inflight = FALSE
    /\ args = NoArgs
    /\ arrived = <<>>
    /\ stale = <<>>
    /\ connected = FALSE
    /\ kwp = FALSE
    /\ gpc = "idle"
    /\ nested = FALSE
    /\ app \in Apps
    /\ quiet = 0
    /\ handshake = FALSE
    /\ leaked = 0
    /\ fn = "none"
    /\ arg = <<>>
    /\ out = NoResult

\* connect(), line 238, right-hand side: KWP2000(port, baudrate) opens the
\* port (serial.Serial raises SerialException when it cannot).  From here on
\* portOpen is the port of the new client; the client self.kwp held so far
\* was not closed, so its Serial object, if open, is a second open handle
ConnectBody ==
    \E opened \in BOOLEAN :
        IF opened
        THEN /\ kwp' = TRUE
             /\ portOpen' = TRUE
             /\ dtr' = TRUE
             /\ inbuf' = <<>>
             /\ inflight' = FALSE
             /\ op' = "connect"
             /\ status' = "running"
             /\ result' = Pending
             /\ req' = NoRequest
             /\ args' = NoArgs
             /\ pc' = "idle"
             /\ cpc' = "none"
             /\ FreshHistory
             /\ gpc' = "store"
             /\ quiet' = 0
             /\ handshake' = FALSE
             /\ leaked' = IF portOpen THEN leaked + 1 ELSE leaked
             /\ UNCHANGED <<connected, nested, pureVars, app>>
        ELSE /\ gpc' = "end"
             /\ UNCHANGED <<clientVars, connected, kwp, nested, pureVars, app, handshake, leaked, quiet>>

\* the connect button
GuiConnect ==
    /\ gpc = "idle"
    /\ ConnectEnabled
    /\ ConnectBody

\* connect(), lines 238-239: the store into self.kwp drops the last reference
\* to the client held before, whose Serial object the runtime then finalizes
\* and thereby closes (io.IOBase.__del__); self.kwp.connect() is called
GuiConnectCall ==
    /\ gpc = "store"
    /\ leaked' = 0
    /\ cpc' = "dtr_low"
    /\ gpc' = "connect"
    /\ UNCHANGED <<portVars, callVars, histVars, connected, kwp, nested,
                   pureVars, app, handshake, quiet>>

\* Faulty variant: the port is closed when the handshake did not succeed
GuiConnectDone_cleanup ==
    /\ gpc = "connect"
    /\ status = "done"
    /\ LET ok == result.kind = "return" /\ result.value.type = "response"
       IN  /\ connected' = IF ok THEN TRUE ELSE connected
           /\ handshake' = ok
           /\ portOpen' = IF ok THEN portOpen ELSE FALSE
    /\ gpc' = "end"
    /\ UNCHANGED <<dtr, inbuf, inflight, callVars, histVars, cpc, kwp, nested,
                   pureVars, app, leaked, quiet>>

\* Faulty variant: connected is set whenever self.kwp.connect() returns
GuiConnectDone_anyresult ==
    /\ gpc = "connect"
    /\ status = "done"
    /\ connected' = IF result.kind = "return" THEN TRUE ELSE connected
    /\ handshake' = (result.kind = "return" /\ result.value.type = "response")
    /\ gpc' = "end"
    /\ UNCHANGED <<clientVars, kwp, nested, pureVars, app, leaked, quiet>>

\* connect(), lines 241-259: the outcome of self.kwp.connect()
GuiConnectDone ==
    /\ gpc = "connect"
    /\ status = "done"
    /\ connected' = IF result.kind = "return" /\ result.value.type = "response"
                    THEN TRUE
                    ELSE connected
    /\ handshake' = (result.kind = "return" /\ result.value.type = "response")
    /\ gpc' = "end"
    /\ UNCHANGED <<clientVars, kwp, nested, pureVars, app, leaked, quiet>>

\* Faulty variant: the port is closed whatever the stop requests did
DisconnectAfter_finally(step, o) ==
    IF o.kind = "raise" THEN "close"
    ELSE IF step = "disc_stop_diag" THEN "disc_stop_comm"
    ELSE "close"

\* disconnect(), lines 264-274: what follows the call of position `step`
\* once it ended with outcome o; an exception is caught and logged
DisconnectAfter(step, o) ==
    IF o.kind = "raise" THEN "swallow"
    ELSE IF step = "disc_stop_diag" THEN "disc_stop_comm"
    ELSE "close"

\* where the handler goes on after disconnect()
AfterDisconnect(n) == IF n THEN "reconnect" ELSE "end"

\* the first call of disconnect(): gui.py line 265 calls
\* stop_dignostic_session(), kwp2000_client.py line 519 stop_communication()
DisconnectFirst(a) ==
    IF a = "gui/gui.py" THEN "stop_dignostic_session" ELSE "stop_communication"

\* disconnect(): if self.kwp, the first stop request is sent
DisconnectBody(n) ==
    /\ nested' = n
    /\ IF kwp
       THEN /\ KwpCall(DisconnectFirst(app), NoArgs)
            /\ FreshHistory
            /\ gpc' = IF DisconnectFirst(app) = "stop_dignostic_session"
                      THEN "disc_stop_diag"
                      ELSE "disc_stop_comm"
            /\ quiet' = 0
            /\ UNCHANGED <<portVars, cpc, connected, kwp, pureVars, app, handshake, leaked>>
       ELSE /\ gpc' = AfterDisconnect(n)
            /\ UNCHANGED <<clientVars, connected, kwp, pureVars, app, handshake, leaked, quiet>>

\* the disconnect button
GuiDisconnect ==
    /\ gpc = "idle"
    /\ DisconnectEnabled
    /\ DisconnectBody(FALSE)

\* self.kwp.close() and the assignments after it, lines 267-272
DisconnectClose ==
    /\ portOpen' = FALSE
    /\ inbuf' = <<>>
    /\ op' = "close"
    /\ log' = Append(log, "close")
    /\ connected' = FALSE

\* disconnect(), lines 265-274: a stop request ended
GuiDisconnectStep ==
    /\ gpc \in {"disc_stop_diag", "disc_stop_comm"}
    /\ status = "done"
    /\ LET next == DisconnectAfter(gpc, result)
       IN  CASE next = "swallow" ->
                    /\ gpc' = AfterDisconnect(nested)
                    /\ UNCHANGED <<clientVars, connected>>
             [] next = "disc_stop_comm" ->
                    /\ KwpCall("stop_communication", NoArgs)
                    /\ gpc' = "disc_stop_comm"
                    /\ UNCHANGED <<portVars, histVars, cpc, connected>>
             [] next = "close" ->
                    /\ DisconnectClose
                    /\ gpc' = AfterDisconnect(nested)
                    /\ UNCHANGED <<dtr, inflight, status, result, req, args, pc,
                                   cresp, full_message, response, parsed,
                                   frames, arrived, stale, cpc>>
    /\ UNCHANGED <<kwp, nested, pureVars, app, handshake, leaked, quiet>>

\* ecu_reset(), line 361-362: after disconnect() and time.sleep(2), connect()
GuiReconnect ==
    /\ gpc = "reconnect"
    /\ ConnectBody

\* read_ident, read_dtc, clear_dtc, read_data, control_device: nothing is
\* done unless check_connection(); otherwise one method of self.kwp is
\* called (clear_dtc asks first, the answer may be no)
GuiService ==
    /\ gpc = "idle"
    /\ IF ~connected
       THEN /\ gpc' = "end"
            /\ UNCHANGED <<clientVars, connected, kwp, nested, pureVars, app, handshake, leaked, quiet>>
       ELSE \/ \E c \in GuiServiceCalls :
                  /\ KwpCall(c.name, c.args)
                  /\ FreshHistory
                  /\ gpc' = "service"
                  /\ quiet' = 0
                  /\ UNCHANGED <<portVars, cpc, connected, kwp, nested,
                                 pureVars, app, handshake, leaked>>
            \/ /\ gpc' = "end"
               /\ UNCHANGED <<clientVars, connected, kwp, nested, pureVars, app, handshake, leaked, quiet>>

\* the result or the exception of the call is shown in the result field
GuiServiceDone ==
    /\ gpc = "service"
    /\ status = "done"
    /\ gpc' = "end"
    /\ UNCHANGED <<clientVars, connected, kwp, nested, pureVars, app, handshake, leaked, quiet>>

\* ecu_reset(), lines 346-354: check_connection(), askyesno, ecu_reset(0x01)
GuiEcuReset ==
    /\ gpc = "idle"
    /\ IF ~connected
       THEN /\ gpc' = "end"
            /\ UNCHANGED <<clientVars, connected, kwp, nested, pureVars, app, handshake, leaked, quiet>>
       ELSE \/ /\ KwpCall("ecu_reset", Args(<<1>>, <<>>))
               /\ FreshHistory
               /\ gpc' = "reset"
               /\ quiet' = 0
               /\ UNCHANGED <<portVars, cpc, connected, kwp, nested, pureVars,
                              app, handshake, leaked>>
            \/ /\ gpc' = "end"
               /\ UNCHANGED <<clientVars, connected, kwp, nested, pureVars, app, handshake, leaked, quiet>>

\* ecu_reset(), lines 355-366: after a positive result disconnect() is
\* called (then sleep and connect()); anything else is only shown
GuiEcuResetDone ==
    /\ gpc = "reset"
    /\ status = "done"
    /\ IF result.kind = "return" /\ result.value.type = "response"
       THEN DisconnectBody(TRUE)
       ELSE /\ gpc' = "end"
            /\ UNCHANGED <<clientVars, connected, kwp, nested, pureVars, app, handshake, leaked, quiet>>

\* the handler returns to the main loop, its locals are dropped
GuiReturn ==
    /\ gpc = "end"
    /\ gpc' = "idle"
    /\ nested' = FALSE
    /\ op' = "none"
    /\ status' = "idle"
    /\ result' = NoResult
    /\ req' = NoRequest
    /\ args' = NoArgs
    /\ FreshHistory
    /\ quiet' = IF \E i \in 1..Len(log) : log[i] = "read_all" THEN 0 ELSE quiet
    /\ UNCHANGED <<portVars, pc, cpc, connected, kwp, pureVars, app, handshake, leaked>>

\* the seconds of the timing parameter P3_MAX (5000 ms)
P3_MAX == 5

\* the main loop waits for the next event: a second passes.  No handler
\* registers a timer, so nothing but a button ends the wait
GuiWait ==
    /\ gpc = "idle"
    /\ quiet <= P3_MAX
    /\ quiet' = quiet + 1
    /\ UNCHANGED <<clientVars, connected, kwp, gpc, nested, pureVars, app, handshake, leaked>>

NextGui ==
    \/ GuiConnect
    \/ GuiWait
    \/ GuiConnectCall
    \/ GuiConnectDone
    \/ GuiDisconnect
    \/ GuiDisconnectStep
    \/ GuiReconnect
    \/ GuiService
    \/ GuiServiceDone
    \/ GuiEcuReset
    \/ GuiEcuResetDone
    \/ GuiReturn
    \/ ConnectDtrLow
    \/ ConnectDtrHigh
    \/ SendBuild
    \/ SendReset
    \/ SendWrite
    \/ SendSettle
    \/ SendReadEcho
    \/ SendReadAll
    \/ SendCheck
    \/ ServiceParse
    \/ LateBytes

SpecGui == InitGui /\ [][NextGui]_vars

----------------------------------------------------------------------------
(* Disconnecting *)

DisconnectEvents == SendEvents \o SendEvents \o <<"close">>

\* StopDiagnosticSession, StopCommunication
DisconnectBodies == << <<32>>, <<130>> >>

\* disconnect() is running, or it was the last operation of the handler
InDisconnect ==
    \/ gpc \in {"disc_stop_diag", "disc_stop_comm"}
    \/ /\ gpc \in {"end", "reconnect"}
       /\ op \in {"stop_dignostic_session", "stop_communication", "close"}

\* the order of the port operations of disconnect(); the port is closed only
\* after both stop requests were written and their responses read
DisconnectInOrder ==
    InDisconnect =>
        /\ IsPrefix(log, DisconnectEvents)
        /\ Len(frames) <= 2
        /\ \A i \in 1..Len(frames) : FrameBody(frames[i]) = DisconnectBodies[i]
        /\ (op = "close" \/ ~portOpen) =>
              /\ log = DisconnectEvents
              /\ Len(frames) = 2
              /\ ~portOpen

\* once the port is closed no request is at or past its write
NoWriteOnClosedPort ==
    ~portOpen => pc \notin {"write", "sleep", "read_echo", "read_all"}

\* C12: disconnecting sends StopDiagnosticSession (0x20), then
\* StopCommunication (0x82), then closes the serial port, in that order; the
\* port is not closed before both stop requests have been sent and no frame
\* is written after the port is closed.
C12_DisconnectOrder == DisconnectInOrder /\ NoWriteOnClosedPort

----------------------------------------------------------------------------
(* No answer within the read window *)

\* C21: a service call that receives no bytes within the read window fails
\* with an error that is distinguishable from the error for a too-short
\* response (a Timeout error).
C21_TimeoutDistinct ==
    (op \in ServiceNames /\ NoAnswer) =>
        /\ result.kind = "raise"
        /\ result.error # TooShortError

----------------------------------------------------------------------------
(* Keeping the session alive *)

\* C22: while a diagnostic session is established (after a successful
\* connect and before disconnect) a request, TesterPresent if nothing else,
\* is sent before more than P3_MAX has passed since the last exchange.
C22_KeepAlive == connected => quiet <= P3_MAX

----------------------------------------------------------------------------
(* KWPUtils: the decoders of response data.  A dict is a sequence of       *)
(* <<key, value>> pairs in insertion order, a str a sequence of characters *)
(* (of code points for the VIN).  The values of parse_ass_params are the   *)
(* numbers its strings print: f"{coolant_temp} °C" the integer, f"{rpm}    *)
(* об/мин" the integer, f"{voltage:.2f} В" the hundredths of a volt.        *)

\* class DTCStatus, in the order of its body
DTCStatus ==
    << [name |-> "TEST_FAILED", value |-> 128],
       [name |-> "TEST_FAILED_THIS_OPERATION_CYCLE", value |-> 64],
       [name |-> "PENDING_DTC", value |-> 32],
       [name |-> "CONFIRMED_DTC", value |-> 16],
       [name |-> "TEST_NOT_COMPLETED_SINCE_LAST_CLEAR", value |-> 8],
       [name |-> "TEST_FAILED_SINCE_LAST_CLEAR", value |-> 4],
       [name |-> "TEST_NOT_COMPLETED_THIS_OPERATION_CYCLE", value |-> 2],
       [name |-> "WARNING_INDICATOR_REQUESTED", value |-> 1] >>

HexDigits ==
    <<"0", "1", "2", "3", "4", "5", "6", "7",
      "8", "9", "A", "B", "C", "D", "E", "F">>

\* the digits are printed in lower case
Hex2_lower(b) ==
    LET digits == <<"0", "1", "2", "3", "4", "5", "6", "7",
                    "8", "9", "a", "b", "c", "d", "e", "f">>
    IN  <<digits[(b \div 16) + 1], digits[(b % 16) + 1]>>

\* f"{b:02X}" for a byte b
Hex2(b) == <<HexDigits[(b \div 16) + 1], HexDigits[(b % 16) + 1]>>

\* a flag is reported when the status byte is at least its mask
StatusFlags_atleast(dtc_status) ==
    LET raised(flag) == dtc_status >= flag.value
        flags == SelectSeq(DTCStatus, raised)
    IN  [i \in 1..Len(flags) |-> flags[i].name]

\* parse_dtcs, lines 224-228: the names of the flags with status & flag.value
\* (the byte is called dtc_status here, status being a variable of the model)
StatusFlags(dtc_status) ==
    LET raised(flag) == BitAnd(dtc_status, flag.value) # 0
        flags == SelectSeq(DTCStatus, raised)
    IN  [i \in 1..Len(flags) |-> flags[i].name]

\* parse_dtcs, lines 216-234: the record of the i-th pass of the loop
\* (offset = 1 + (i - 1) * 3, counted from 0)
DtcRecord(response_data, i) ==
    LET offset   == 1 + (i - 1) * 3
        dtc_high == response_data[offset + 1]
        dtc_low  == response_data[offset + 2]
        dtc_status == response_data[offset + 3]
    IN  [code |-> <<"P">> \o Hex2(dtc_high) \o Hex2(dtc_low),
         status |-> dtc_status,
         status_flags |-> StatusFlags(dtc_status)]

\* every complete 3-byte group after the count byte is decoded
parse_dtcs_greedy(response_data) ==
    IF Len(response_data) < 1 THEN Return(<<>>)
    ELSE LET num_dtc == response_data[1]
         IN  IF Len(response_data) < 1 + 3 * num_dtc
             THEN Raise(IndexError)
             ELSE Return([i \in 1..((Len(response_data) - 1) \div 3) |->
                             DtcRecord(response_data, i)])

\* the groups that are complete are returned when the payload ends early
parse_dtcs_partial(response_data) ==
    IF Len(response_data) < 1 THEN Return(<<>>)
    ELSE LET num_dtc  == response_data[1]
             complete == (Len(response_data) - 1) \div 3
         IN  Return([i \in 1..(IF complete < num_dtc THEN complete
                                                     ELSE num_dtc) |->
                         DtcRecord(response_data, i)])

\* parse_dtcs(response_data); an index past the end raises IndexError
parse_dtcs(response_data) ==
    IF Len(response_data) < 1 THEN Return(<<>>)
    ELSE LET num_dtc == response_data[1]
         IN  IF Len(response_data) < 1 + 3 * num_dtc
             THEN Raise(IndexError)
             ELSE Return([i \in 1..num_dtc |-> DtcRecord(response_data, i)])

\* bytes above 0x7F are kept as they are
DecodeAscii_keep(b) ==
    b

\* bytes.decode('ascii', errors='ignore'): bytes above 0x7F are dropped
DecodeAscii(b) ==
    LET ascii(c) == c < 128
    IN  SelectSeq(b, ascii)

\* response_data[1:20]
Slice1To20(response_data) ==
    SubSeq(response_data, 2, IF Len(response_data) < 20
                             THEN Len(response_data) ELSE 20)

\* parse_identification(response_data)
parse_identification(response_data) ==
    IF Len(response_data) < 1 THEN Return(<<>>)
    ELSE IF response_data[1] = 128
    THEN Return(<< <<"VIN", DecodeAscii(Slice1To20(response_data))>> >>)
    ELSE Return(<<>>)

\* the offsets of the three values counted from 1 instead of from 0
parse_ass_params_shifted(response_data) ==
    IF Len(response_data) < 36 THEN Return(<<>>)
    ELSE LET equip1       == response_data[3]
             coolant_temp == response_data[10] - 40
             rpm          == response_data[13] * 40
             voltage      == 520 + response_data[20] * 5
         IN  Return(<< <<"oxygen_sensor", BitAnd(equip1, 1) # 0>>,
                       <<"adsorber", BitAnd(equip1, 2) # 0>>,
                       <<"coolant_temp", coolant_temp>>,
                       <<"rpm", rpm>>,
                       <<"voltage", voltage>> >>)

\* parse_ass_params(response_data); the keys are those of the source in
\* English (oxygen sensor, adsorber, coolant temperature, RPM, voltage)
parse_ass_params(response_data) ==
    IF Len(response_data) < 36 THEN Return(<<>>)
    ELSE LET equip1       == response_data[3]
             coolant_temp == response_data[11] - 40
             rpm          == response_data[14] * 40
             voltage      == 520 + response_data[21] * 5
         IN  Return(<< <<"oxygen_sensor", BitAnd(equip1, 1) # 0>>,
                       <<"adsorber", BitAnd(equip1, 2) # 0>>,
                       <<"coolant_temp", coolant_temp>>,
                       <<"rpm", rpm>>,
                       <<"voltage", voltage>> >>)

----------------------------------------------------------------------------
(* The decoders as pure functions: Init draws the function and its input,   *)
(* one action per function applies it                                       *)

\* most records in a DTC payload
MaxDtc == 2
\* most bytes after the last record
MaxExtra == 3

\* 3-byte groups dtc_high, dtc_low, status
DtcGroups == {<<h, l, s>> : h \in {1, 171}, l \in {0, 35}, s \in {0, 129, 255}}

RECURSIVE Flatten(_)
Flatten(ss) == IF ss = <<>> THEN <<>> ELSE Head(ss) \o Flatten(Tail(ss))

DtcExtras == SeqsUpTo({7}, MaxExtra)

\* payloads of parse_dtcs: up to N records followed by trailing bytes;
\* one record for every dtc_high and dtc_low; one record for every status;
\* payloads shorter than their count byte announces; the empty payload
DtcInputs(N) ==
    {<<Len(g)>> \o Flatten(g) \o e : g \in SeqsUpTo(DtcGroups, N),
                                     e \in DtcExtras}
    \cup {<<1, h, l, 0>> : h \in Byte, l \in Byte}
    \cup {<<1, 1, 35, s>> \o e : s \in Byte, e \in DtcExtras}
    \cup {<<>>, <<1>>, <<1, 1>>, <<1, 1, 35>>, <<2, 1, 35, 0>>,
          <<2, 1, 35, 0, 1, 2>>, <<255, 1, 2, 3>>}

\* 19 ASCII bytes
SampleVin == [i \in 1..19 |-> 64 + i]

\* payloads of parse_identification: the types 0x80, 0x81, 0x00 with the VIN,
\* with the VIN and more bytes, with one byte of the VIN not ASCII, with the
\* VIN cut short; the empty payload
IdentInputs ==
    {<<>>}
    \cup {<<t>> \o SubSeq(SampleVin, 1, n) : t \in {128, 129, 0}, n \in 0..19}
    \cup {<<t>> \o SampleVin \o <<48, 49>> : t \in {128, 129, 0}}
    \cup {<<t>> \o [SampleVin EXCEPT ![k] = 200] : t \in {128, 129}, k \in 1..19}

\* n zero bytes
Zeros(n) == [i \in 1..n |-> 0]

\* payloads of parse_ass_params: blocks of 36 bytes with every value of
\* byte 10, of byte 13, of byte 20 and of the two equipment flags; longer
\* blocks; every length below 36
ParamInputs ==
    {[Zeros(36) EXCEPT ![k] = v] : k \in {11, 14, 21}, v \in Byte}
    \cup {[Zeros(36) EXCEPT ![3] = v] : v \in 0..3}
    \cup {[Zeros(36 + n) EXCEPT ![11] = 70, ![14] = 25, ![21] = 10] : n \in 0..2}
    \cup {[Zeros(n) EXCEPT ![n] = 255] : n \in 1..35}
    \cup {<<>>}

InitDecode ==
    /\ CoreAtRest
    /\ \/ fn = "parse_dtcs" /\ arg \in DtcInputs(MaxDtc)
       \/ fn = "parse_identification" /\ arg \in IdentInputs
       \/ fn = "parse_ass_params" /\ arg \in ParamInputs
    /\ out = Pending

DtcsApply ==
    /\ fn = "parse_dtcs"
    /\ out = Pending
    /\ out' = parse_dtcs(arg)
    /\ UNCHANGED <<coreVars, fn, arg>>

IdentApply ==
    /\ fn = "parse_identification"
    /\ out = Pending
    /\ out' = parse_identification(arg)
    /\ UNCHANGED <<coreVars, fn, arg>>

ParamsApply ==
    /\ fn = "parse_ass_params"
    /\ out = Pending
    /\ out' = parse_ass_params(arg)
    /\ UNCHANGED <<coreVars, fn, arg>>

NextDecode ==
    \/ DtcsApply
    \/ IdentApply
    \/ ParamsApply

SpecDecode == InitDecode /\ [][NextDecode]_vars

----------------------------------------------------------------------------
(* Properties of the DTC decoder, the formats restated *)

\* the value of an uppercase hexadecimal digit (16 for any other character)
DigitValue(c) ==
    CASE c = "0" -> 0 [] c = "1" -> 1 [] c = "2" -> 2 [] c = "3" -> 3
      [] c = "4" -> 4 [] c = "5" -> 5 [] c = "6" -> 6 [] c = "7" -> 7
      [] c = "8" -> 8 [] c = "9" -> 9 [] c = "A" -> 10 [] c = "B" -> 11
      [] c = "C" -> 12 [] c = "D" -> 13 [] c = "E" -> 14 [] c = "F" -> 15
      [] OTHER -> 16

\* the code string is 'P' and the two uppercase hex digits of h and of l
IsCode(code, h, l) ==
    /\ Len(code) = 5
    /\ code[1] = "P"
    /\ \A k \in 2..5 : DigitValue(code[k]) < 16
    /\ DigitValue(code[2]) * 16 + DigitValue(code[3]) = h
    /\ DigitValue(code[4]) * 16 + DigitValue(code[5]) = l

DecodedBy(name) == fn = name /\ out # Pending

\* the payload holds its count byte and the N groups it announces
CompleteDtcPayload(p) == Len(p) >= 1 /\ Len(p) >= 1 + 3 * p[1]

\* C23: for a payload [N, h1,l1,s1, ..., hN,lN,sN, extra bytes...]
\* parse_dtcs returns exactly N records, the i-th built from the i-th
\* 3-byte group in order, and ignores all trailing bytes; for N = 0 it
\* returns an empty list.
C23_DtcCount ==
    (DecodedBy("parse_dtcs") /\ CompleteDtcPayload(arg)) =>
        /\ out.kind = "return"
        /\ Len(out.value) = arg[1]
        /\ \A i \in 1..arg[1] :
              /\ IsCode(out.value[i].code, arg[3 * i - 1], arg[3 * i])
              /\ out.value[i].status = arg[3 * i + 1]
        /\ arg[1] = 0 => out.value = <<>>

C23_Witness ==
    /\ DecodedBy("parse_dtcs")
    /\ arg = <<2, 1, 35, 0, 171, 0, 129, 7, 7, 7>>
    /\ out.kind = "return"
    /\ Len(out.value) = 2

\* C24: each decoded DTC record carries the raw status byte unchanged and a
\* code string 'P' followed by the two uppercase hex digits of dtc_high and
\* the two of dtc_low (0x01, 0x23 gives 'P0123'), for all byte values.
C24_DtcCode ==
    (DecodedBy("parse_dtcs") /\ out.kind = "return") =>
        /\ \A i \in 1..Len(out.value) :
              /\ IsCode(out.value[i].code, arg[3 * i - 1], arg[3 * i])
              /\ out.value[i].status = arg[3 * i + 1]
        /\ (Len(arg) >= 3 /\ arg[1] = 1 /\ arg[2] = 1 /\ arg[3] = 35) =>
              out.value[1].code = <<"P", "0", "1", "2", "3">>

C24_Witness ==
    /\ DecodedBy("parse_dtcs")
    /\ arg = <<1, 171, 205, 0>>
    /\ out.kind = "return"
    /\ out.value[1].code = <<"P", "A", "B", "C", "D">>

\* bit k of the byte s is set
BitSet(s, k) == (s \div (2 ^ k)) % 2 = 1

\* the bit position of each flag: 0x80 TEST_FAILED down to 0x01 WARNING
FlagBit(name) ==
    CASE name = "TEST_FAILED" -> 7
      [] name = "TEST_FAILED_THIS_OPERATION_CYCLE" -> 6
      [] name = "PENDING_DTC" -> 5
      [] name = "CONFIRMED_DTC" -> 4
      [] name = "TEST_NOT_COMPLETED_SINCE_LAST_CLEAR" -> 3
      [] name = "TEST_FAILED_SINCE_LAST_CLEAR" -> 2
      [] name = "TEST_NOT_COMPLETED_THIS_OPERATION_CYCLE" -> 1
      [] name = "WARNING_INDICATOR_REQUESTED" -> 0
      [] OTHER -> 8

\* C25: for every status byte, the status flags of a decoded DTC record are
\* exactly the names of the flags whose mask bit is set, each of the 8 bit
\* positions tested independently; the number of flags equals the number of
\* set bits and status 0x00 yields no flag.
C25_StatusFlags ==
    (DecodedBy("parse_dtcs") /\ out.kind = "return") =>
        \A i \in 1..Len(out.value) :
            LET r     == out.value[i]
                names == {r.status_flags[j] : j \in 1..Len(r.status_flags)}
                bits  == {k \in 0..7 : BitSet(r.status, k)}
            IN  /\ {FlagBit(n) : n \in names} = bits
                /\ Len(r.status_flags) = Cardinality(bits)
                /\ r.status = 0 => r.status_flags = <<>>

C25_Witness ==
    /\ DecodedBy("parse_dtcs")
    /\ arg = <<1, 1, 35, 129>>
    /\ out.kind = "return"
    /\ out.value[1].status_flags = <<"TEST_FAILED", "WARNING_INDICATOR_REQUESTED">>

----------------------------------------------------------------------------
(* Properties of the three decoders on short payloads, of the parameter    *)
(* block and of the identification record                                  *)

\* the minimum payload length of each decoder
MinPayload(name) ==
    CASE name = "parse_dtcs" -> 1
      [] name = "parse_identification" -> 1
      [] name = "parse_ass_params" -> 36

Decoders == {"parse_dtcs", "parse_identification", "parse_ass_params"}

\* C26: each decoding function fails with a 'payload too short' error, and
\* returns no record, when its minimum payload length is not met: fewer
\* than 1 byte for the DTC list decoder and for the identification decoder,
\* fewer than 36 bytes for the parameter-block decoder.
C26_TooShortFails ==
    (fn \in Decoders /\ out # Pending /\ Len(arg) < MinPayload(fn)) =>
        out.kind = "raise"

\* a decoded record (a dict in the source) has the key k
HasKey(d, k) == \E j \in 1..Len(d) : d[j][1] = k

\* the value stored under the key k
Get(d, k) == d[CHOOSE j \in 1..Len(d) : d[j][1] = k][2]

\* C27: for every parameter block of at least 36 bytes the decoder yields
\* coolant temperature = byte[10] - 40 (possibly negative), engine RPM =
\* byte[13] * 40 and battery voltage = 520 + 5 * byte[20] hundredths of a
\* volt (70 gives 30, 25 gives 1000, 10 gives 5.70); a payload shorter than
\* 36 bytes never yields any of these fields.  Offsets count from 0.
C27_ParamBlock ==
    DecodedBy("parse_ass_params") =>
        /\ out.kind = "return"
        /\ Len(arg) >= 36 =>
              /\ HasKey(out.value, "coolant_temp")
              /\ HasKey(out.value, "rpm")
              /\ HasKey(out.value, "voltage")
              /\ Get(out.value, "coolant_temp") = arg[10 + 1] - 40
              /\ Get(out.value, "coolant_temp") \in (0 - 40)..(255 - 40)
              /\ Get(out.value, "rpm") = arg[13 + 1] * 40
              /\ Get(out.value, "voltage") = 520 + 5 * arg[20 + 1]
              /\ arg[10 + 1] = 70 => Get(out.value, "coolant_temp") = 30
              /\ arg[13 + 1] = 25 => Get(out.value, "rpm") = 1000
              /\ arg[20 + 1] = 10 => Get(out.value, "voltage") = 570
        /\ Len(arg) < 36 =>
              /\ ~HasKey(out.value, "coolant_temp")
              /\ ~HasKey(out.value, "rpm")
              /\ ~HasKey(out.value, "voltage")

C27_Witness ==
    /\ DecodedBy("parse_ass_params")
    /\ Len(arg) = 36
    /\ arg[11] = 70 /\ arg[14] = 25 /\ arg[21] = 10
    /\ out.kind = "return"
    /\ Get(out.value, "coolant_temp") = 30
    /\ Get(out.value, "rpm") = 1000
    /\ Get(out.value, "voltage") = 570

C27_WitnessNegative ==
    /\ DecodedBy("parse_ass_params")
    /\ Len(arg) = 36
    /\ out.kind = "return"
    /\ Get(out.value, "coolant_temp") = 0 - 40

\* the bytes at payload offsets 1..19, as many of them as the payload holds
VinWindow(p) ==
    [i \in 1..(IF Len(p) < 20 THEN Len(p) - 1 ELSE 19) |-> p[i + 1]]

\* v is made of the bytes of w below 0x80, in their order in w
AsciiOf(w, v) ==
    LET kept == {i \in 1..Len(w) : w[i] < 128}
        nth(j) == CHOOSE i \in kept :
                      Cardinality({k \in kept : k <= i}) = j
    IN  /\ Len(v) = Cardinality(kept)
        /\ \A j \in 1..Len(v) : v[j] = w[nth(j)]

C28_WitnessFull ==
    /\ DecodedBy("parse_identification")
    /\ arg = <<128>> \o SampleVin \o <<48, 49>>
    /\ out = Return(<< <<"VIN", SampleVin>> >>)

----------------------------------------------------------------------------
(* send_request end to end: the echo of the request is taken off the bus   *)

\* the StartCommunication frame and the positive answer to it
StartCommunicationFrame == <<129, 16, 241, 129, 3>>
StartCommunicationAnswer == <<131, 241, 16, 193, 69>>

\* since reset_input_buffer the bus delivered the echo of the request and
\* then the bytes after it, and nothing else
EchoThenAnswer == IsPrefix(full_message, arrived)
AnswerAfterEcho == Drop(arrived, Len(full_message))

\* C29: when the transport echoes the transmitted StartCommunication frame
\* and then delivers [0x83, 0xF1, 0x10, 0xC1, checksum],
\* start_communication() returns a positive result with service_id 0x81 and
\* empty data; in general, when the bus delivers the echo of the request
\* followed by ECU response R, the bytes handed to parse_response are
\* exactly R.
C29_EchoSuppressed ==
    /\ (/\ op = "start_communication"
        /\ status = "done"
        /\ arrived = StartCommunicationFrame \o StartCommunicationAnswer) =>
           /\ full_message = StartCommunicationFrame
           /\ result = Return([type |-> "response",
                               service_id |-> 129,
                               data |-> <<>>])
    /\ (/\ op \in ServiceNames
        /\ status = "done"
        /\ Len(log) = 4
        /\ EchoThenAnswer) =>
           /\ response = AnswerAfterEcho
           /\ parsed \in {<<>>, <<AnswerAfterEcho>>}
           /\ WellSummed(AnswerAfterEcho) => parsed = <<AnswerAfterEcho>>

C29_Witness ==
    /\ op = "start_communication"
    /\ status = "done"
    /\ arrived = StartCommunicationFrame \o StartCommunicationAnswer
    /\ parsed = <<StartCommunicationAnswer>>
    /\ result.kind = "return"
    /\ result.value.service_id = 129
    /\ result.value.data = <<>>

----------------------------------------------------------------------------
(* close() after connect() *)

\* connect() was called and ended, and close() was called next
ClosedAfterConnect ==
    /\ op = "close"
    /\ status = "done"
    /\ Len(log) >= 2
    /\ log[1] = "dtr_low"
    /\ log[Len(log)] = "close"

\* the step of connect() that was running when it ended: the number of
\* frames written (0 when the port refused the first request)
ConnectStepReached == Len(frames)

\* C30: close() releases the serial port and is safe to call after a failed
\* connect: whatever step of connect() failed (checksum error, too-short
\* response, negative response), a subsequent close() succeeds and leaves
\* the port closed.
C30_CloseAfterConnect ==
    (op = "close" /\ status = "done") =>
        /\ result = Return(None)
        /\ ~portOpen
        /\ inbuf = <<>>

\* close() after a checksum error in the second step of connect()
C30_Witness ==
    /\ ClosedAfterConnect
    /\ ConnectStepReached = 2
    /\ Len(parsed) = 1
    /\ IsPrefix(frames[2], arrived)
    /\ BadSum(Drop(arrived, Len(frames[2])))
    /\ result = Return(None)
    /\ ~portOpen

\* close() after a too-short response in the first step of connect()
C30_WitnessTooShort ==
    /\ ClosedAfterConnect
    /\ ConnectStepReached = 1
    /\ Len(parsed) = 1
    /\ Len(parsed[1]) < 4
    /\ result = Return(None)
    /\ ~portOpen

\* close() after the ECU rejected the last step of connect()
C30_WitnessNegative ==
    /\ ClosedAfterConnect
    /\ ConnectStepReached = 3
    /\ Len(parsed) = 3
    /\ Len(parsed[3]) >= 6
    /\ parsed[3][4] = 127
    /\ result = Return(None)
    /\ ~portOpen

\* close() after connect() on a port that was closed before
C30_WitnessClosedPort ==
    /\ ClosedAfterConnect
    /\ ConnectStepReached = 0
    /\ result = Return(None)
    /\ ~portOpen

----------------------------------------------------------------------------
(* The range of the service id of a positive result *)

\* C31: the service_id of every positive result returned by parse_response
\* is an unsigned 8-bit value (0..255), for every response of length >= 4
\* whose byte at offset 3 is not 0x7F, including responses whose byte at
\* offset 3 is below 0x40.
C31_ServiceIdIsByte ==
    (Applied /\ Len(arg) >= 4 /\ arg[4] # 127) =>
        /\ out.kind = "return"
        /\ out.value.service_id \in 0..255

----------------------------------------------------------------------------
(* Responses of fewer than 4 bytes *)

\* the call read a response of 1, 2 or 3 bytes
ShortAnswer ==
    /\ status = "done"
    /\ Len(log) = 4
    /\ Len(response) \in 1..3

\* C32: a service call whose received response is shorter than 4 bytes
\* (lengths 1, 2 and 3 included) fails with the 'response too short' error
\* before any other interpretation of the bytes, whatever their content.
C32_ShortIsTooShort ==
    (op \in ServiceNames /\ ShortAnswer) => result = Raise(TooShortError)

----------------------------------------------------------------------------
(* DTC payloads that end before the groups their count byte announces *)

\* fewer than 3 * N bytes follow the count byte N
TruncatedDtcPayload(p) == Len(p) >= 1 /\ Len(p) - 1 < 3 * p[1]

\* C40: when the count byte N of a DTC payload announces more groups than
\* the payload holds, parse_dtcs raises an out-of-range error and returns no
\* list at all, never a partial list of the groups that were complete.
C40_TruncatedDtcRaises ==
    (DecodedBy("parse_dtcs") /\ TruncatedDtcPayload(arg)) =>
        /\ out.kind = "raise"
        /\ out = Raise(IndexError)

C40_Witness ==
    /\ DecodedBy("parse_dtcs")
    /\ arg = <<2, 1, 35, 0, 1, 2>>
    /\ out = Raise(IndexError)

----------------------------------------------------------------------------
(* Payloads too long for the 6-bit length field of the short header *)

\* the length send_request declares: the service id and the payload
DeclaredLength == 1 + Len(req.data)

\* send_request was called with the short header form and a payload of 63
\* or more bytes
LongShortForm ==
    /\ op = "send_request"
    /\ ~req.has_length_byte
    /\ DeclaredLength > 63

\* C33: for a declared length above 63 with has_length_byte=False,
\* build_header (and therefore send_request with a payload of 63 or more
\* bytes) raises no error and produces a 3-byte header whose low 6 bits are
\* length mod 64, so the length encoded on the wire differs from the real
\* length; the frame is still written.
C33_LengthWraps ==
    /\ (LongShortForm /\ status = "done") =>
          /\ result # Raise(BytesError)
          /\ result # Raise(PortError) => Len(frames) = 1
          /\ \A n \in 64..255 :
                /\ Len(build_header(n, FALSE)) = 3
                /\ build_header(n, FALSE)[1] = 128 + (n % 64)
    /\ (LongShortForm /\ frames # <<>>) =>
          LET f == frames[1]
          IN  /\ Len(f) = 3 + DeclaredLength + 1
              /\ f[1] = 128 + (DeclaredLength % 64)
              /\ f[1] % 64 # DeclaredLength
              /\ f[2] = 16 /\ f[3] = 241
              /\ f[4] = req.service_id
              /\ SubSeq(f, 5, Len(f) - 1) = req.data
              /\ WellSummed(f)
              /\ log[2] = "write"

C33_Witness ==
    /\ LongShortForm
    /\ status = "done"
    /\ Len(req.data) = 64
    /\ frames # <<>>
    /\ frames[1][1] = 129
    /\ Len(frames[1]) = 69

----------------------------------------------------------------------------
(* The response is not matched against the request *)

\* the service id a response names: byte[4] of a negative response,
\* byte[3] - 0x40 of a positive one (offsets from 0)
NamedService(r) == IF r[4] = 127 THEN r[5] ELSE r[4] - 64

\* a checksum-valid response that parse_response can read
Readable(r) ==
    /\ Len(r) >= 4
    /\ r[4] = 127 => Len(r) >= 6
    /\ WellSummed(r)

\* a service call read a readable response that names another service
ForeignAnswer ==
    /\ op \in ServiceNames
    /\ status = "done"
    /\ Len(log) = 4
    /\ Readable(response)
    /\ NamedService(response) # req.service_id

\* C35: no service operation correlates the response with its request: a
\* checksum-valid response of length >= 4 whose service id (byte[3] - 0x40,
\* or byte[4] of a negative response) differs from the requested service id
\* is returned to the caller as a normal result of that request.
C35_NoCorrelation ==
    ForeignAnswer =>
        /\ result.kind = "return"
        /\ result.value.service_id = NamedService(response)
        /\ result.value.type = (IF response[4] = 127 THEN "error" ELSE "response")

C35_Witness ==
    /\ ForeignAnswer
    /\ op = "tester_present"
    /\ response[4] = 193
    /\ result.kind = "return"
    /\ result.value.type = "response"
    /\ result.value.service_id = 129

C35_WitnessNegative ==
    /\ ForeignAnswer
    /\ op = "ecu_reset"
    /\ response[4] = 127
    /\ result = Return([type |-> "error", service_id |-> 18, error_code |-> 17])

----------------------------------------------------------------------------
(* The GUI after ECUReset *)

StopNames == {"stop_dignostic_session", "stop_communication"}

\* C34: after ECUReset returns a positive result the GUI runs disconnect
\* (stop requests and port close) and only then a full connect handshake on
\* a newly opened port, and no other service request is sent between the
\* reset and the completion of that reconnect; a negative or failed reset
\* triggers neither disconnect nor reconnect.
C34_ResetReconnects ==
    /\ gpc = "reconnect" =>
          /\ op = "close"
          /\ log[Len(log)] = "close"
          /\ ~portOpen
          /\ ~connected
    /\ nested => op \in StopNames \cup {"close", "connect"}
    /\ (gpc = "end" /\ op = "ecu_reset") => ~nested

----------------------------------------------------------------------------
(* The GUI sends service requests only while connected *)

\* a request is being built, sent or answered
RequestInProgress == pc # "idle"

\* C36: in the GUI no diagnostic service request is written to the port
\* while connected is False: each handler returns before any port access
\* unless connected is True, and connected becomes True only in connect()
\* when the returned handshake result has type 'response'.
C36_ServiceOnlyConnected ==
    [][/\ (~connected' /\ RequestInProgress') => op' = "connect"
       /\ (~connected' /\ frames' # <<>>) => op' \in {"connect", "close"}
       /\ (~connected /\ connected') =>
             /\ gpc = "connect"
             /\ op = "connect"
             /\ result.kind = "return"
             /\ result.value.type = "response"]_vars

\* a service handler returned without touching the port: not connected,
\* though a client with an open port is there
C36_Witness ==
    /\ gpc = "end"
    /\ ~connected
    /\ kwp
    /\ portOpen
    /\ op = "none"
    /\ log = <<>>
    /\ frames = <<>>

----------------------------------------------------------------------------
(* GUI disconnect when a stop request raises *)

\* disconnect() ended, or its last call did
DisconnectEnded ==
    /\ gpc \in {"end", "reconnect"}
    /\ op \in StopNames \cup {"close"}

\* the stop requests disconnect() sends before close()
StopRequests(a) ==
    IF a = "gui/gui.py" THEN <<"stop_dignostic_session", "stop_communication">>
    ELSE <<"stop_communication">>

\* C37: if StopDiagnosticSession or StopCommunication raises during GUI
\* disconnect (checksum error, or too-short response because the ECU no
\* longer answers), the error is swallowed, close() is never called, the
\* port stays open and connected stays True; the port is closed and
\* connected set to False only when both stop requests return without
\* raising (in kwp2000_client.py, whose disconnect() sends StopCommunication
\* alone, when that one does).
C37_DisconnectSwallows ==
    /\ (DisconnectEnded /\ op \in StopNames) =>
          /\ result.kind = "raise"
          /\ portOpen
          /\ connected
          /\ \A i \in 1..Len(log) : log[i] # "close"
    /\ (DisconnectEnded /\ op = "close") =>
          /\ ~portOpen
          /\ ~connected
          /\ Len(frames) = Len(StopRequests(app))
          /\ Len(parsed) = Len(StopRequests(app))
          /\ \A i \in 1..Len(parsed) : Readable(parsed[i])
    /\ (gpc \in {"disc_stop_diag", "disc_stop_comm"}) => (portOpen /\ connected)

C37_Witness ==
    /\ DisconnectEnded
    /\ app = "gui/gui.py"
    /\ op = "stop_dignostic_session"
    /\ response = <<>>
    /\ result = Raise(TooShortError)
    /\ portOpen
    /\ connected

C37_WitnessChecksum ==
    /\ DisconnectEnded
    /\ app = "gui/gui.py"
    /\ op = "stop_communication"
    /\ result = Raise(ChecksumError)
    /\ portOpen
    /\ connected

----------------------------------------------------------------------------
(* GUI connect attempts whose handshake fails, and the ports they leave    *)

\* connect() of the GUI ended and the handshake did not give a positive
\* result: a step raised, or the last result has type 'error'
ConnectFailed ==
    /\ gpc = "end"
    /\ op = "connect"
    /\ ~(result.kind = "return" /\ result.value.type = "response")

\* the Serial objects that are open: the one of self.kwp and the leaked ones
OpenHandles == leaked + (IF portOpen THEN 1 ELSE 0)

\* a connect attempt opens its port in this step
OpensPort == gpc \in {"idle", "reconnect"} /\ gpc' = "store"

\* C38: a GUI connect() attempt that opens the port but whose handshake
\* fails (an exception in any step, or a negative TesterPresent result) does
\* not call close(): the port opened by that attempt stays open while
\* connected is False, and every further connect attempt opens another port
\* handle without closing the previous one, so the number of open handles
\* is not bounded by one.
C38_FailedConnectLeavesPort ==
    [][/\ ConnectFailed' =>
             /\ portOpen'
             /\ \A i \in 1..Len(log') : log'[i] # "close"
             /\ ~nested' => ~connected'
       /\ OpensPort =>
             /\ portOpen'
             /\ OpenHandles' = OpenHandles + 1
             /\ \A i \in 1..Len(log') : log'[i] # "close"
       /\ OpenHandles' < OpenHandles =>
             \/ gpc = "store" /\ leaked' < leaked /\ portOpen'
             \/ gpc \in {"disc_stop_diag", "disc_stop_comm"} /\ op' = "close"]_vars

\* a second attempt has opened a second handle while the port of the failed
\* attempt is still open
C38_Witness ==
    /\ gpc = "store"
    /\ ~nested
    /\ ~connected
    /\ portOpen
    /\ leaked = 1
    /\ OpenHandles = 2

C38_WitnessNegative ==
    /\ ConnectFailed
    /\ ~nested
    /\ result.kind = "return"
    /\ result.value.type = "error"
    /\ Len(frames) = 3
    /\ portOpen
    /\ ~connected

----------------------------------------------------------------------------
(* What connected = True stands for *)

\* C39: in every state reachable by GUI connect, disconnect and ECU-reset
\* actions, connected = True implies that the client currently held in
\* self.kwp completed a connect handshake whose TesterPresent result was
\* positive and that its port is open; this includes the reset path, where
\* a failed disconnect is followed by a new connect attempt.
C39_ConnectedMeansHandshake ==
    connected => (kwp /\ handshake /\ portOpen)

====
